---- MODULE Spec2Model ----
(***************************************************************************)
(* A model of thresh's column resolution and "cat" assembly engine         *)
(* (src/thresh/__init__.py): verify_no_naming_collisions, eval_from_dict,  *)
(* gen_aliases_object and cat_control, with the TabularFile constructor of *)
(* src/thresh/tabular_file_container.py.                                   *)
(*                                                                         *)
(* Python strings are sequences of one-character strings, so that          *)
(* concatenation (alias + column), indexing (arg[0], arg[1:]), membership  *)
(* ("=" in arg), split and strip are computed as the code computes them.   *)
(* An OrderedDict is a sequence of [k, v] records in insertion order.      *)
(* A Python value is a record [t, v]: t its type, v its payload.           *)
(***************************************************************************)
EXTENDS Integers, Sequences, FiniteSets, TLC

VARIABLES
    list_of_data,          \* main's list of TabularFile objects
    args,                  \* the token list handed to cat_control (the caller's list object)
    pc,                    \* position in main, cat_control, eval_from_dict or parse_args
    idx,                   \* index of the next token of `for arg in args`
    aliases,               \* | the four sets returned by
    column_names,          \* | verify_no_naming_collisions
    aliased_column_names,  \* |
    ambiguous_requests,    \* |
    input_source,          \* cat_control's dict of unambiguous input names
    output,                \* cat_control's OrderedDict of output columns
    stderr,                \* the warnings written to sys.stderr, in order
    stdout,                \* the expressions named by eval_from_dict's error line, in order
    exc,                   \* the exception that ended the call ("" while none)
    explicit,              \* the caller's token list was not empty (line 603)
    namespace,             \* the namespace returned by cat_control
    result,                \* the TabularFile content returned by cat_control
    process,               \* main's instructions["process"]
    postprocess,           \* main's instructions["postprocess"]: [action, argument]
    return_code,           \* main's return_code
    listing,               \* the lines printed by list_headers / basic_list_headers
    report,                \* the results main's assert stage writes to sys.stderr, in order
    given_source,          \* eval_from_dict's argument `source`
    given_eval_str,        \* eval_from_dict's argument `eval_str`
    returned_series,       \* the value eval_from_dict returned (`series`)
    argv,                  \* parse_args' argument `args_in`
    gather                 \* instructions["gather"]

\* the variables of one call of cat_control
catvars == <<list_of_data, args, idx, aliases, column_names, aliased_column_names,
             ambiguous_requests, input_source, output, stderr, explicit, namespace, result>>

\* the variables of main around that call
mainvars == <<process, postprocess, return_code, listing, report>>

\* the variables of one direct call of eval_from_dict
evalvars == <<given_source, given_eval_str, returned_series>>

\* the variables of one call of parse_args (with process and postprocess)
parsevars == <<argv, gather>>

vars == <<catvars, mainvars, evalvars, parsevars, pc, exc, stdout>>

(***************************************************************************)
(* Bounds of the model.                                                    *)
(***************************************************************************)
MaxTables == 2     \* most input tables of one call
MaxArgs == 2       \* most tokens of one call
Rows == 2          \* rows of every input file

(***************************************************************************)
(* Strings.                                                                *)
(***************************************************************************)
\* x in s, for a one-character x
HasChar(s, c) == \E i \in 1..Len(s) : s[i] = c

\* s[1:]
Tail1(s) == SubSeq(s, 2, Len(s))

\* the position of the first occurrence of c in s (0 when absent)
FirstIndex(s, c) ==
    IF HasChar(s, c) THEN CHOOSE i \in 1..Len(s) : s[i] = c /\ \A j \in 1..(i - 1) : s[j] # c
    ELSE 0

Whitespace == {" "}

\* str.strip()
RECURSIVE LStrip(_)
LStrip(s) == IF s # <<>> /\ Head(s) \in Whitespace THEN LStrip(Tail(s)) ELSE s

RECURSIVE RStrip(_)
RStrip(s) ==
    IF s # <<>> /\ s[Len(s)] \in Whitespace THEN RStrip(SubSeq(s, 1, Len(s) - 1)) ELSE s

Strip(s) == RStrip(LStrip(s))

\* arg.split("=", maxsplit=1), for an arg that contains "="
SplitFirst(s, c) ==
    LET i == FirstIndex(s, c)
    IN <<SubSeq(s, 1, i - 1), SubSeq(s, i + 1, Len(s))>>

(***************************************************************************)
(* Python values.                                                          *)
(***************************************************************************)
Arr(v) == [t |-> "array", v |-> v]
Num(n) == [t |-> "number", v |-> <<n>>]
PyNone == [t |-> "None", v |-> <<>>]
\* a function object: its type names the function, its payload is empty
FunctionTypes == {"ones", "len"}
Func(f) == [t |-> f, v |-> <<>>]
\* a dict object is observed through its type and its number of keys only
DictObj(n) == [t |-> "dict", v |-> [i \in 1..n |-> 0]]
Raise(e) == [t |-> e, v |-> <<>>]
\* a str and a list of str
PyStr(s) == [t |-> "str", v |-> s]
PyList(l) == [t |-> "list", v |-> l]

Exceptions == {"NameError", "SyntaxError", "TypeError", "ValueError", "KeyError", "IndexError"}
IsRaise(x) == x.t \in Exceptions

(***************************************************************************)
(* OrderedDict.                                                            *)
(***************************************************************************)
Keys(d) == {d[i].k : i \in 1..Len(d)}
KeyList(d) == [i \in 1..Len(d) |-> d[i].k]
Has(d, k) == \E i \in 1..Len(d) : d[i].k = k
Get(d, k) == d[CHOOSE i \in 1..Len(d) : d[i].k = k].v

\* d[k] = v: an existing key keeps its position
Set(d, k, v) ==
    IF Has(d, k) THEN [i \in 1..Len(d) |-> IF d[i].k = k THEN [k |-> k, v |-> v] ELSE d[i]]
    ELSE Append(d, [k |-> k, v |-> v])

\* d.pop(k)
Pop(d, k) == SelectSeq(d, LAMBDA e : e.k # k)

\* d.update(other)
RECURSIVE Update(_, _)
Update(d, other) ==
    IF other = <<>> THEN d
    ELSE Update(Set(d, Head(other).k, Head(other).v), Tail(other))

(***************************************************************************)
(* Input tables (TabularFile objects).  NoAlias stands for alias=None: the *)
(* empty string is no Python identifier, so it is never a real alias.      *)
(***************************************************************************)
NoAlias == <<>>

\* the data of column j of the i-th file of the command line
ColumnData(i, j) == Arr([r \in 1..Rows |-> 100 * i + 10 * j + r])

\* TabularFile.from_file for a text file: one float array per header, all of one length
TextFile(alias, head, i) ==
    [alias |-> alias,
     content |-> [j \in 1..Len(head) |-> [k |-> head[j], v |-> ColumnData(i, j)]],
     namespace_only |-> FALSE]

\* TabularFile.from_file for a .json file: the entries are arbitrary JSON values
JsonFile(alias, head, i) ==
    [alias |-> alias,
     content |-> [j \in 1..Len(head) |-> [k |-> head[j], v |-> Num(100 * i + 10 * j)]],
     namespace_only |-> TRUE]

\* The files a command line can name: [alias, head, json].
FileShapes ==
    { [alias |-> NoAlias,         head |-> << <<"a">>, <<"b">> >>,                json |-> FALSE],
      [alias |-> <<"A">>,         head |-> << <<"a">>, <<"b">> >>,                json |-> FALSE],
      [alias |-> <<"B">>,         head |-> << <<"b">>, <<"A", "a">> >>,           json |-> FALSE],
      [alias |-> <<"A", "A">>,    head |-> << <<"a">>, <<"A">> >>,                json |-> FALSE],
      [alias |-> <<"A">>,         head |-> << <<"A">>, <<"A", "a">> >>,           json |-> FALSE],
      [alias |-> NoAlias,         head |-> << <<"b", "=", "a">>, <<"c">> >>,      json |-> FALSE],
      [alias |-> <<"J">>,         head |-> << <<"c">> >>,                         json |-> TRUE] }

FromFile(shape, i) ==
    IF shape.json THEN JsonFile(shape.alias, shape.head, i)
    ELSE TextFile(shape.alias, shape.head, i)

RECURSIVE SeqsUpTo(_, _)
SeqsUpTo(S, n) ==
    IF n = 0 THEN {<<>>}
    ELSE LET shorter == SeqsUpTo(S, n - 1)
         IN shorter \cup {Append(q, x) : q \in {p \in shorter : Len(p) = n - 1}, x \in S}

\* main: list_of_data = [TabularFile.from_file(...) for _ in instructions["gather"]]
DataLists ==
    { [i \in 1..Len(shapes) |-> FromFile(shapes[i], i)] : shapes \in SeqsUpTo(FileShapes, MaxTables) }

(***************************************************************************)
(* verify_no_naming_collisions                                             *)
(***************************************************************************)
\* AliasLoop that also takes the absent alias of a table for an alias
RECURSIVE AliasLoopCountsNone(_, _)
AliasLoopCountsNone(seen, lod) ==
    IF lod = <<>> THEN FALSE
    ELSE IF Head(lod).alias \in seen THEN TRUE
    ELSE AliasLoopCountsNone(seen \cup {Head(lod).alias}, Tail(lod))

\* lines 422-427: the first loop, with the aliases seen so far; TRUE when it
\* raises "Repeated aliases detected"
RECURSIVE AliasLoop(_, _)
AliasLoop(seen, lod) ==
    IF lod = <<>> THEN FALSE
    ELSE IF Head(lod).alias = NoAlias THEN AliasLoop(seen, Tail(lod))
    ELSE IF Head(lod).alias \in seen THEN TRUE
    ELSE AliasLoop(seen \cup {Head(lod).alias}, Tail(lod))

RepeatedAliases(lod) == AliasLoop({}, lod)

AliasSet(lod) == {lod[i].alias : i \in {n \in 1..Len(lod) : lod[n].alias # NoAlias}}

\* ScanColumn without the test `colname in aliased_column_names`
ScanColumnNoAliasedTest(st, al, alias, colname) ==
    LET amb1 == IF colname \in al \/ colname \in st.column_names
                THEN st.ambiguous_requests \cup {colname}
                ELSE st.ambiguous_requests
        cn1 == st.column_names \cup {colname}
        acolname == alias \o colname
    IN IF alias = NoAlias
       THEN [column_names |-> cn1, aliased_column_names |-> st.aliased_column_names,
             ambiguous_requests |-> amb1]
       ELSE [column_names |-> cn1,
             aliased_column_names |-> st.aliased_column_names \cup {acolname},
             ambiguous_requests |->
                 IF acolname \in al \/ acolname \in cn1
                    \/ acolname \in st.aliased_column_names
                 THEN amb1 \cup {acolname} ELSE amb1]

\* ScanColumn without the test `acolname in column_names`
ScanColumnNoColumnTest(st, al, alias, colname) ==
    LET amb1 == IF colname \in al \/ colname \in st.column_names
                   \/ colname \in st.aliased_column_names
                THEN st.ambiguous_requests \cup {colname}
                ELSE st.ambiguous_requests
        cn1 == st.column_names \cup {colname}
        acolname == alias \o colname
    IN IF alias = NoAlias
       THEN [column_names |-> cn1, aliased_column_names |-> st.aliased_column_names,
             ambiguous_requests |-> amb1]
       ELSE [column_names |-> cn1,
             aliased_column_names |-> st.aliased_column_names \cup {acolname},
             ambiguous_requests |->
                 IF acolname \in al \/ acolname \in st.aliased_column_names
                 THEN amb1 \cup {acolname} ELSE amb1]

\* the body of the inner loop, for one column name of one table
ScanColumn(st, al, alias, colname) ==
    LET amb1 == IF colname \in al \/ colname \in st.column_names
                   \/ colname \in st.aliased_column_names
                THEN st.ambiguous_requests \cup {colname}
                ELSE st.ambiguous_requests
        cn1 == st.column_names \cup {colname}
        acolname == alias \o colname
    IN IF alias = NoAlias
       THEN [column_names |-> cn1, aliased_column_names |-> st.aliased_column_names,
             ambiguous_requests |-> amb1]
       ELSE [column_names |-> cn1,
             aliased_column_names |-> st.aliased_column_names \cup {acolname},
             ambiguous_requests |->
                 IF acolname \in al \/ acolname \in cn1
                    \/ acolname \in st.aliased_column_names
                 THEN amb1 \cup {acolname} ELSE amb1]

RECURSIVE ScanTable(_, _, _, _)
ScanTable(st, al, alias, keys) ==
    IF keys = <<>> THEN st
    ELSE ScanTable(ScanColumn(st, al, alias, Head(keys)), al, alias, Tail(keys))

RECURSIVE ScanTables(_, _, _)
ScanTables(st, al, lod) ==
    IF lod = <<>> THEN st
    ELSE ScanTables(ScanTable(st, al, Head(lod).alias, KeyList(Head(lod).content)), al, Tail(lod))

\* the value returned (only when no alias repeats)
verify_no_naming_collisions(lod) ==
    LET al == AliasSet(lod)
        st == ScanTables([column_names |-> {}, aliased_column_names |-> {},
                          ambiguous_requests |-> {}], al, lod)
    IN [aliases |-> al, column_names |-> st.column_names,
        aliased_column_names |-> st.aliased_column_names,
        ambiguous_requests |-> st.ambiguous_requests]

(***************************************************************************)
(* Python's eval(), for the expressions of the model: names, the constant  *)
(* None, decimal integers, `+`, calls with one argument and parentheses.   *)
(* An expression is compiled first (a SyntaxError comes before any name is *)
(* looked up) and evaluated left to right.                                 *)
(***************************************************************************)
Letters ==
    {"a", "b", "c", "d", "e", "f", "g", "h", "i", "j", "k", "l", "m", "n", "o", "p", "q",
     "r", "s", "t", "u", "v", "w", "x", "y", "z",
     "A", "B", "C", "D", "E", "F", "G", "H", "I", "J", "K", "L", "M", "N", "O", "P", "Q",
     "R", "S", "T", "U", "V", "W", "X", "Y", "Z"}
Digits == {"0", "1", "2", "3", "4", "5", "6", "7", "8", "9"}
IdStart == Letters \cup {"_"}
IdChars == IdStart \cup Digits
Operators == {"+", "(", ")"}

DigitValue(c) ==
    CASE c = "0" -> 0 [] c = "1" -> 1 [] c = "2" -> 2 [] c = "3" -> 3 [] c = "4" -> 4
      [] c = "5" -> 5 [] c = "6" -> 6 [] c = "7" -> 7 [] c = "8" -> 8 [] c = "9" -> 9

RECURSIVE IntValue(_)
IntValue(s) == IF s = <<>> THEN 0 ELSE 10 * IntValue(SubSeq(s, 1, Len(s) - 1)) + DigitValue(s[Len(s)])

\* the length of the longest prefix of s made of characters of S
RECURSIVE Run(_, _)
Run(s, S) == IF s # <<>> /\ Head(s) \in S THEN 1 + Run(Tail(s), S) ELSE 0

\* the tokenizer: a sequence of [kind, text], or <<[kind |-> "error"]>> at the end
RECURSIVE Lex(_)
Lex(s) ==
    IF s = <<>> THEN <<>>
    ELSE IF Head(s) \in Whitespace THEN Lex(Tail(s))
    ELSE IF Head(s) \in IdStart
         THEN LET n == Run(s, IdChars)
              IN <<[kind |-> "name", text |-> SubSeq(s, 1, n)]>> \o Lex(SubSeq(s, n + 1, Len(s)))
    ELSE IF Head(s) \in Digits
         THEN LET n == Run(s, Digits)
              IN IF n < Len(s) /\ s[n + 1] \in IdStart
                 THEN <<[kind |-> "error", text |-> <<>>]>>
                 ELSE <<[kind |-> "number", text |-> SubSeq(s, 1, n)]>>
                      \o Lex(SubSeq(s, n + 1, Len(s)))
    ELSE IF Head(s) \in Operators
         THEN <<[kind |-> "op", text |-> <<Head(s)>>]>> \o Lex(Tail(s))
    ELSE IF Len(s) >= 2 /\ SubSeq(s, 1, 2) = <<"=", "=">>
         THEN <<[kind |-> "op", text |-> <<"=", "=">>]>> \o Lex(SubSeq(s, 3, Len(s)))
    ELSE <<[kind |-> "error", text |-> <<>>]>>

IsOp(toks, p, c) == p <= Len(toks) /\ toks[p].kind = "op" /\ toks[p].text = <<c>>
IsEq(toks, p) == p <= Len(toks) /\ toks[p].kind = "op" /\ toks[p].text = <<"=", "=">>

\* The parser: each function returns [ok, ast, pos].
\*   cmp  := sum ("==" sum)?        (the model's expressions have no chain a == b == c)
\*   sum  := atom ("+" atom)*
\*   atom := (NAME | NUMBER | "(" cmp ")") ("(" cmp ")")*
ParseFail == [ok |-> FALSE, ast |-> [n |-> "none"], pos |-> 0]

RECURSIVE ParseCmp(_, _)
RECURSIVE ParseSum(_, _)
RECURSIVE ParseSumRest(_, _, _)
RECURSIVE ParseAtom(_, _)
RECURSIVE ParseCalls(_, _, _)

ParseCmp(toks, p) ==
    LET a == ParseSum(toks, p)
    IN IF ~a.ok THEN ParseFail
       ELSE IF IsEq(toks, a.pos)
       THEN LET b == ParseSum(toks, a.pos + 1)
            IN IF ~b.ok THEN ParseFail
               ELSE [ok |-> TRUE, ast |-> [n |-> "eq", l |-> a.ast, r |-> b.ast], pos |-> b.pos]
       ELSE a

ParseSum(toks, p) ==
    LET a == ParseAtom(toks, p)
    IN IF ~a.ok THEN ParseFail ELSE ParseSumRest(toks, a.pos, a.ast)

ParseSumRest(toks, p, left) ==
    IF IsOp(toks, p, "+")
    THEN LET a == ParseAtom(toks, p + 1)
         IN IF ~a.ok THEN ParseFail
            ELSE ParseSumRest(toks, a.pos, [n |-> "add", l |-> left, r |-> a.ast])
    ELSE [ok |-> TRUE, ast |-> left, pos |-> p]

ParseAtom(toks, p) ==
    IF p > Len(toks) THEN ParseFail
    ELSE IF toks[p].kind = "name"
         THEN ParseCalls(toks, p + 1, [n |-> "name", id |-> toks[p].text])
    ELSE IF toks[p].kind = "number"
         THEN ParseCalls(toks, p + 1, [n |-> "num", val |-> IntValue(toks[p].text)])
    ELSE IF IsOp(toks, p, "(")
         THEN LET e == ParseCmp(toks, p + 1)
              IN IF e.ok /\ IsOp(toks, e.pos, ")") THEN ParseCalls(toks, e.pos + 1, e.ast)
                 ELSE ParseFail
    ELSE ParseFail

ParseCalls(toks, p, callee) ==
    IF IsOp(toks, p, "(")
    THEN LET e == ParseCmp(toks, p + 1)
         IN IF e.ok /\ IsOp(toks, e.pos, ")")
            THEN ParseCalls(toks, e.pos + 1, [n |-> "call", f |-> callee, a |-> e.ast])
            ELSE ParseFail
    ELSE [ok |-> TRUE, ast |-> callee, pos |-> p]

Parsed(toks, e) == IF e.ok /\ e.pos = Len(toks) + 1 THEN e ELSE ParseFail

ParseAll(toks) == Parsed(toks, ParseCmp(toks, 1))

\* compile(eval_str, "eval")
Compile(s) == ParseAll(Lex(s))

\* PyAdd that adds two arrays over their common prefix
PyAddTruncating(x, y) ==
    IF x.t = "array" /\ y.t = "array"
    THEN IF Len(x.v) <= Len(y.v) THEN Arr([i \in 1..Len(x.v) |-> x.v[i] + y.v[i]])
         ELSE Arr([i \in 1..Len(y.v) |-> x.v[i] + y.v[i]])
    ELSE IF x.t = "array" /\ y.t = "number" THEN Arr([i \in 1..Len(x.v) |-> x.v[i] + y.v[1]])
    ELSE IF x.t = "number" /\ y.t = "array" THEN Arr([i \in 1..Len(y.v) |-> x.v[1] + y.v[i]])
    ELSE IF x.t = "number" /\ y.t = "number" THEN Num(x.v[1] + y.v[1])
    ELSE Raise("TypeError")

\* x + y, with numpy's broadcasting for arrays
PyAdd(x, y) ==
    IF x.t = "array" /\ y.t = "array"
    THEN IF Len(x.v) = Len(y.v) THEN Arr([i \in 1..Len(x.v) |-> x.v[i] + y.v[i]])
         ELSE IF Len(x.v) = 1 THEN Arr([i \in 1..Len(y.v) |-> x.v[1] + y.v[i]])
         ELSE IF Len(y.v) = 1 THEN Arr([i \in 1..Len(x.v) |-> x.v[i] + y.v[1]])
         ELSE Raise("ValueError")
    ELSE IF x.t = "array" /\ y.t = "number" THEN Arr([i \in 1..Len(x.v) |-> x.v[i] + y.v[1]])
    ELSE IF x.t = "number" /\ y.t = "array" THEN Arr([i \in 1..Len(y.v) |-> x.v[1] + y.v[i]])
    ELSE IF x.t = "number" /\ y.t = "number" THEN Num(x.v[1] + y.v[1])
    ELSE Raise("TypeError")

\* x == y: elementwise for arrays (a boolean is the number 1 or 0).  Arrays whose
\* lengths do not broadcast raise in NumPy from 1.25 on; older versions warn and
\* return False.
PyEq(x, y) ==
    LET b(p) == IF p THEN 1 ELSE 0
    IN IF x.t = "array" /\ y.t = "array"
       THEN IF Len(x.v) = Len(y.v) THEN Arr([i \in 1..Len(x.v) |-> b(x.v[i] = y.v[i])])
            ELSE IF Len(x.v) = 1 THEN Arr([i \in 1..Len(y.v) |-> b(x.v[1] = y.v[i])])
            ELSE IF Len(y.v) = 1 THEN Arr([i \in 1..Len(x.v) |-> b(x.v[i] = y.v[1])])
            ELSE Raise("ValueError")
       ELSE IF x.t = "array" /\ y.t = "number" THEN Arr([i \in 1..Len(x.v) |-> b(x.v[i] = y.v[1])])
       ELSE IF x.t = "number" /\ y.t = "array" THEN Arr([i \in 1..Len(y.v) |-> b(x.v[1] = y.v[i])])
       ELSE IF x.t = "array" THEN Arr([i \in 1..Len(x.v) |-> 0])
       ELSE IF y.t = "array" THEN Arr([i \in 1..Len(y.v) |-> 0])
       ELSE Num(b(x.t = y.t /\ x.v = y.v))

\* f(x), for the functions of the model
PyCall(f, x) ==
    IF f.t \notin FunctionTypes THEN Raise("TypeError")
    ELSE IF f.t = "ones"
         THEN IF x.t = "number" THEN Arr([i \in 1..x.v[1] |-> 1]) ELSE Raise("TypeError")
    ELSE IF f.t = "len"
         THEN IF x.t \in {"array", "dict"} THEN Num(Len(x.v)) ELSE Raise("TypeError")
    ELSE Raise("TypeError")

\* Python's builtins, which eval() adds to its empty globals (those of the model)
Builtins == << [k |-> <<"l", "e", "n">>, v |-> Func("len")] >>

\* Lookup in globals that have no builtins
LookupNoBuiltins(locals, id) ==
    IF id = <<"N", "o", "n", "e">> THEN PyNone
    ELSE IF Has(locals, id) THEN Get(locals, id)
    ELSE Raise("NameError")

\* a name is looked up in the locals, then in the globals' builtins
Lookup(locals, id) ==
    IF id = <<"N", "o", "n", "e">> THEN PyNone
    ELSE IF Has(locals, id) THEN Get(locals, id)
    ELSE IF Has(Builtins, id) THEN Get(Builtins, id)
    ELSE Raise("NameError")

RECURSIVE Eval(_, _)
Eval(ast, locals) ==
    IF ast.n = "name" THEN Lookup(locals, ast.id)
    ELSE IF ast.n = "num" THEN Num(ast.val)
    ELSE IF ast.n = "add"
         THEN LET x == Eval(ast.l, locals)
              IN IF IsRaise(x) THEN x
                 ELSE LET y == Eval(ast.r, locals)
                      IN IF IsRaise(y) THEN y ELSE PyAdd(x, y)
    ELSE IF ast.n = "eq"
         THEN LET x == Eval(ast.l, locals)
              IN IF IsRaise(x) THEN x
                 ELSE LET y == Eval(ast.r, locals)
                      IN IF IsRaise(y) THEN y ELSE PyEq(x, y)
    ELSE LET f == Eval(ast.f, locals)
         IN IF IsRaise(f) THEN f
            ELSE LET x == Eval(ast.a, locals)
                 IN IF IsRaise(x) THEN x ELSE PyCall(f, x)

EvalCompiled(c, locals) == IF c.ok THEN Eval(c.ast, locals) ELSE Raise("SyntaxError")

\* eval(eval_str, {}, safe_dict)
PyEval(s, locals) == EvalCompiled(Compile(s), locals)

(***************************************************************************)
(* eval_from_dict                                                          *)
(***************************************************************************)
\* the vocabulary (those entries of safe_dict the model gives a meaning)
safe_dict == << [k |-> <<"o", "n", "e", "s">>, v |-> Func("ones")] >>

\* Evaluated without the error line
EvaluatedSilently(series) == [val |-> series, printed |-> FALSE]

\* lines 530-536: the value of the expression, or its exception after the
\* "+++ Error while attempting to evaluate" line is printed
Evaluated(series) == [val |-> series, printed |-> IsRaise(series)]

\* eval_from_dict without the test for conflicts of lines 522-526
eval_from_dictNoConflictTest(source, eval_str) ==
    Evaluated(PyEval(eval_str, Update(safe_dict, source)))

\* Returns [val, printed]: the value returned or the exception raised, and
\* whether the error line was printed.
eval_from_dict(source, eval_str) ==
    IF Keys(safe_dict) \cap Keys(source) # {}
    THEN [val |-> Raise("KeyError"), printed |-> FALSE]
    ELSE Evaluated(PyEval(eval_str, Update(safe_dict, source)))

(***************************************************************************)
(* cat_control                                                             *)
(***************************************************************************)
clobber_warn(label) == [w |-> "clobbering column", label |-> label]
remove_warn(label) == [w |-> "removing column", label |-> label]
aliases_warn == [w |-> "detected column named '__aliases'", label |-> <<>>]

ALIASES == <<"_", "_", "a", "l", "i", "a", "s", "e", "s">>

\* gen_aliases_object: one key per alias of a table that has a column
gen_aliases_object(lod) ==
    DictObj(Cardinality({lod[i].alias : i \in {n \in 1..Len(lod) :
                             lod[n].alias # NoAlias /\ lod[n].content # <<>>}}))

\* LoadColumns that binds every name, unique or not
RECURSIVE LoadColumnsAll(_, _, _, _)
LoadColumnsAll(src, unique_columns, alias, content) ==
    IF content = <<>> THEN src
    ELSE LET column_name == Head(content).k
             s1 == Set(src, column_name, Head(content).v)
             s2 == IF alias # NoAlias
                   THEN Set(s1, alias \o column_name, Head(content).v) ELSE s1
         IN LoadColumnsAll(s2, unique_columns, alias, Tail(content))

\* lines 594-600: the unambiguous names of the inputs, bare and alias-prefixed
RECURSIVE LoadColumns(_, _, _, _)
LoadColumns(src, unique_columns, alias, content) ==
    IF content = <<>> THEN src
    ELSE LET column_name == Head(content).k
             s1 == IF column_name \in unique_columns
                   THEN Set(src, column_name, Head(content).v) ELSE src
             s2 == IF alias # NoAlias /\ (alias \o column_name) \in unique_columns
                   THEN Set(s1, alias \o column_name, Head(content).v) ELSE s1
         IN LoadColumns(s2, unique_columns, alias, Tail(content))

RECURSIVE LoadTables(_, _, _)
LoadTables(src, unique_columns, lod) ==
    IF lod = <<>> THEN src
    ELSE LoadTables(LoadColumns(src, unique_columns, Head(lod).alias, Head(lod).content),
                    unique_columns, Tail(lod))

include_aliases_dict(r) ==
    ALIASES \notin (r.column_names \cup r.aliased_column_names \cup r.ambiguous_requests)

\* lines 580-600
InputSource(lod, r) ==
    LET unique_columns == (r.column_names \cup r.aliased_column_names) \ r.ambiguous_requests
        first == IF include_aliases_dict(r)
                 THEN <<[k |-> ALIASES, v |-> gen_aliases_object(lod)]>> ELSE <<>>
    IN LoadTables(first, unique_columns, lod)

\* DefaultArgs that does not skip the namespace-only tables
RECURSIVE DefaultArgsAllTables(_)
DefaultArgsAllTables(lod) ==
    IF lod = <<>> THEN <<>>
    ELSE KeyList(Head(lod).content) \o DefaultArgsAllTables(Tail(lod))

\* lines 603-608: the headers appended to an empty token list
RECURSIVE DefaultArgs(_)
DefaultArgs(lod) ==
    IF lod = <<>> THEN <<>>
    ELSE (IF Head(lod).namespace_only THEN <<>> ELSE KeyList(Head(lod).content))
         \o DefaultArgs(Tail(lod))

\* Rule without the ambiguity test of line 614
RuleNoAmbiguityTest(arg, r) ==
    IF arg \in r.aliases THEN "alias"
    ELSE IF arg \in r.column_names THEN "column"
    ELSE IF arg \in r.aliased_column_names THEN "aliased_column"
    ELSE IF HasChar(arg, "=") THEN "assign"
    ELSE "unresolved"

\* Rule with the test for "=" moved in front of the tests for names
RuleAssignFirst(arg, r) ==
    IF arg \in r.ambiguous_requests THEN "ambiguous"
    ELSE IF HasChar(arg, "=") THEN "assign"
    ELSE IF arg \in r.aliases THEN "alias"
    ELSE IF arg \in r.column_names THEN "column"
    ELSE IF arg \in r.aliased_column_names THEN "aliased_column"
    ELSE "unresolved"

\* The rule of the if/elif chain of lines 614-675 that handles a token.
Rule(arg, r) ==
    IF arg \in r.ambiguous_requests THEN "ambiguous"
    ELSE IF arg \in r.aliases THEN "alias"
    ELSE IF arg \in r.column_names THEN "column"
    ELSE IF arg \in r.aliased_column_names THEN "aliased_column"
    ELSE IF HasChar(arg, "=") THEN "assign"
    ELSE "unresolved"

\* The state of the loop is [output, stderr, stdout, exc].
Fail(st, e) == [st EXCEPT !.exc = e]

\* `if label in output: clobber_warn(label)`
ClobberCheck(st, label) ==
    IF Has(st.output, label) THEN [st EXCEPT !.stderr = Append(@, clobber_warn(label))] ELSE st

\* Insert that moves a clobbered column to the end
InsertAtEnd(st, label, value) ==
    [ClobberCheck(st, label) EXCEPT !.output = Append(Pop(st.output, label), [k |-> label, v |-> value])]

\* the clobber check followed by `output[label] = value`
Insert(st, label, value) ==
    [ClobberCheck(st, label) EXCEPT !.output = Set(st.output, label, value)]

\* CopyTable that keeps a column the output already has
RECURSIVE CopyTableKeepExisting(_, _)
CopyTableKeepExisting(st, content) ==
    IF content = <<>> THEN st
    ELSE CopyTableKeepExisting(
             IF Has(st.output, Head(content).k) THEN st
             ELSE Insert(st, Head(content).k, Head(content).v),
             Tail(content))

\* lines 622-625: every column of one table
RECURSIVE CopyTable(_, _)
CopyTable(st, content) ==
    IF content = <<>> THEN st
    ELSE CopyTable(Insert(st, Head(content).k, Head(content).v), Tail(content))

\* the index of the first table of the list that does not `continue` (0 when
\* every table does); skip[i] tells whether table i is skipped
FirstTable(skip) ==
    IF \E i \in 1..Len(skip) : ~skip[i]
    THEN CHOOSE i \in 1..Len(skip) : ~skip[i] /\ \A j \in 1..(i - 1) : skip[j]
    ELSE 0

\* lines 618-626
CatAlias(lod, st, arg) ==
    LET i == FirstTable([n \in 1..Len(lod) |-> arg # lod[n].alias])
    IN IF i = 0 THEN st ELSE CopyTable(st, lod[i].content)

\* CatColumn that looks the column up in the first table only
CatColumnFirstTable(lod, st, arg) ==
    IF lod # <<>> /\ Has(lod[1].content, arg) THEN Insert(st, arg, Get(lod[1].content, arg))
    ELSE Fail(st, "KeyError")

\* lines 629-636
CatColumn(lod, st, arg) ==
    LET i == FirstTable([n \in 1..Len(lod) |-> ~Has(lod[n].content, arg)])
    IN IF i = 0 THEN st ELSE Insert(st, arg, Get(lod[i].content, arg))

\* CatAliasedColumn that keeps the alias-prefixed name for the output column
CatAliasedColumnKeepsName(lod, st, arg) ==
    LET i == FirstTable([n \in 1..Len(lod) |-> <<arg[1]>> # lod[n].alias])
        label == Tail1(arg)
    IN IF i = 0 THEN st
       ELSE IF Has(lod[i].content, label) THEN Insert(st, arg, Get(lod[i].content, label))
       ELSE Fail(ClobberCheck(st, label), "KeyError")

\* lines 639-646: the table is found by the first character of the token
CatAliasedColumn(lod, st, arg) ==
    LET i == FirstTable([n \in 1..Len(lod) |-> <<arg[1]>> # lod[n].alias])
        label == Tail1(arg)
    IN IF i = 0 THEN st
       ELSE IF Has(lod[i].content, label) THEN Insert(st, label, Get(lod[i].content, label))
       ELSE Fail(ClobberCheck(st, label), "KeyError")

\* AssignResult that ignores the removal of a column the output does not have
AssignResultLenient(st, head, eval_str, s) ==
    IF IsRaise(s.val)
    THEN [st EXCEPT !.exc = s.val.t,
                    !.stdout = IF s.printed THEN Append(@, eval_str) ELSE @]
    ELSE IF s.val.t = "None"
         THEN IF ~Has(st.output, head) THEN st
              ELSE [st EXCEPT !.stderr = Append(@, remove_warn(head)),
                              !.output = Pop(@, head)]
    ELSE Insert(st, head, s.val)

\* lines 661-672: what is done with the result s of the evaluation
AssignResult(st, head, eval_str, s) ==
    IF IsRaise(s.val)
    THEN [st EXCEPT !.exc = s.val.t,
                    !.stdout = IF s.printed THEN Append(@, eval_str) ELSE @]
    ELSE IF s.val.t = "None"
         THEN IF ~Has(st.output, head) THEN Fail(st, "RemoveNotFound")
              ELSE [st EXCEPT !.stderr = Append(@, remove_warn(head)),
                              !.output = Pop(@, head)]
    ELSE Insert(st, head, s.val)

\* AssignParts with the input names taking precedence over the output columns
AssignPartsInputFirst(insrc, st, head, eval_str) ==
    IF Len(head) = 0 THEN Fail(st, "EmptyLabel")
    ELSE IF Len(eval_str) = 0 THEN Fail(st, "EmptyExpression")
    ELSE AssignResult(st, head, eval_str, eval_from_dict(Update(st.output, insrc), eval_str))

\* AssignParts that refuses a label of the evaluator's vocabulary
AssignPartsChecksTarget(insrc, st, head, eval_str) ==
    IF Len(head) = 0 THEN Fail(st, "EmptyLabel")
    ELSE IF Len(eval_str) = 0 THEN Fail(st, "EmptyExpression")
    ELSE IF Has(safe_dict, head) THEN Fail(st, "KeyError")
    ELSE AssignResult(st, head, eval_str, eval_from_dict(Update(insrc, st.output), eval_str))

\* lines 652-659
AssignParts(insrc, st, head, eval_str) ==
    IF Len(head) = 0 THEN Fail(st, "EmptyLabel")
    ELSE IF Len(eval_str) = 0 THEN Fail(st, "EmptyExpression")
    ELSE AssignResult(st, head, eval_str, eval_from_dict(Update(insrc, st.output), eval_str))

\* CatAssign that splits the token on its last "="
CatAssignSplitsLast(insrc, st, arg) ==
    LET i == CHOOSE n \in 1..Len(arg) : arg[n] = "=" /\ \A m \in (n + 1)..Len(arg) : arg[m] # "="
    IN AssignParts(insrc, st, Strip(SubSeq(arg, 1, i - 1)), Strip(SubSeq(arg, i + 1, Len(arg))))

\* lines 649-672
CatAssign(insrc, st, arg) ==
    AssignParts(insrc, st, Strip(SplitFirst(arg, "=")[1]), Strip(SplitFirst(arg, "=")[2]))

\* the body of `for arg in args`
ProcessArg(lod, r, insrc, st, arg) ==
    LET rule == Rule(arg, r)
    IN CASE rule = "ambiguous" -> Fail(st, "AmbiguousRequest")
         [] rule = "alias" -> CatAlias(lod, st, arg)
         [] rule = "column" -> CatColumn(lod, st, arg)
         [] rule = "aliased_column" -> CatAliasedColumn(lod, st, arg)
         [] rule = "assign" -> CatAssign(insrc, st, arg)
         [] OTHER -> Fail(st, "UnresolvedToken")

(***************************************************************************)
(* TabularFile.__init__ (content and length_check only): the exception it  *)
(* raises, or "" when the object is built.                                 *)
(***************************************************************************)
HasLen(x) == x.t \in {"array", "dict"}

\* TabularFile that compares the lengths of the first two columns only
TabularFileFirstTwo(content, length_check) ==
    IF length_check /\ Len(content) > 0
    THEN IF \E i \in 1..Len(content) : ~HasLen(content[i].v) THEN "TypeError"
         ELSE IF Len(content) >= 2 /\ Len(content[1].v.v) # Len(content[2].v.v) THEN "IndexError"
         ELSE ""
    ELSE ""

TabularFile(content, length_check) ==
    IF length_check /\ Len(content) > 0
    THEN IF \E i \in 1..Len(content) : ~HasLen(content[i].v) THEN "TypeError"
         ELSE IF Cardinality({Len(content[i].v.v) : i \in 1..Len(content)}) # 1 THEN "IndexError"
         ELSE ""
    ELSE ""

(***************************************************************************)
(* The tokens a call is tried with: every alias, column name and           *)
(* alias-prefixed column name of its tables, and the tokens below.         *)
(***************************************************************************)
TokUnknown == <<"z">>                                        \* z
TokSum == <<"d", "=", "a", "+", "A", "b">>                   \* d=a+Ab
TokDelete == <<"a", "=", "N", "o", "n", "e">>                \* a=None
TokOnes == <<"a", "=", "o", "n", "e", "s", "(", "2", ")">>   \* a=ones(2)
TokCopy == <<"b", "=", "a">>                                 \* b=a
TokPrefixed == <<"A", "a", "=", "b">>                        \* Aa=b
TokShort == <<"d", "=", "o", "n", "e", "s", "(", "1", ")">>  \* d=ones(1)

FixedTokens == {TokUnknown, TokSum, TokDelete, TokOnes, TokCopy, TokPrefixed, TokShort}

Tokens(r) == r.aliases \cup r.column_names \cup r.aliased_column_names \cup FixedTokens

Resolved ==
    [aliases |-> aliases, column_names |-> column_names,
     aliased_column_names |-> aliased_column_names, ambiguous_requests |-> ambiguous_requests]

Loop == [output |-> output, stderr |-> stderr, stdout |-> stdout, exc |-> exc]

(***************************************************************************)
(* The state machine: one call of cat_control on main's list_of_data.      *)
(* The loop reads the token list front to back and never looks ahead, so   *)
(* the tokens of a non-empty list are drawn one at a time as it reaches    *)
(* them; args holds the part of the caller's list read so far.             *)
(***************************************************************************)
\* nothing has run yet
Idle ==
    /\ args = <<>>
    /\ idx = 1
    /\ aliases = {}
    /\ column_names = {}
    /\ aliased_column_names = {}
    /\ ambiguous_requests = {}
    /\ input_source = <<>>
    /\ output = <<>>
    /\ stderr = <<>>
    /\ stdout = <<>>
    /\ exc = ""
    /\ explicit = FALSE
    /\ namespace = <<>>
    /\ result = <<>>
    /\ return_code = 0
    /\ listing = <<>>
    /\ report = <<>>
    /\ returned_series = PyNone
    /\ gather = <<>>

\* the namedtuple Postprocess, and parse_args' default directive
Postprocess(action, argument) == [action |-> action, argument |-> argument]
DefaultPostprocess == Postprocess("print", PyStr(<<".", "t", "x", "t">>))

Init ==
    /\ list_of_data \in DataLists
    /\ pc = "start"
    /\ process = <<>>
    /\ postprocess = DefaultPostprocess
    /\ given_source = <<>>
    /\ given_eval_str = <<>>
    /\ argv = <<>>
    /\ Idle

\* TokenList that appends the headers to a list that is not empty as well
TokenListAlwaysAppends(given, list, lod) == list \o DefaultArgs(lod)

\* lines 603-608: the caller's list after `if len(args) == 0`, for a list that
\* is not empty (given) or empty
TokenList(given, list, lod) == IF given THEN list ELSE list \o DefaultArgs(lod)

\* lines 577-610: up to the first iteration of the loop, for a token list
\* that is not empty (given) or empty
CatControlCall(given, list) ==
    /\ pc = "start"
    /\ IF RepeatedAliases(list_of_data)
       THEN /\ pc' = "raised"
            /\ exc' = "DuplicateAlias"
            /\ args' = list
            /\ UNCHANGED <<aliases, column_names, aliased_column_names,
                           ambiguous_requests, input_source, stderr, explicit>>
       ELSE LET r == verify_no_naming_collisions(list_of_data)
            IN /\ aliases' = r.aliases
               /\ column_names' = r.column_names
               /\ aliased_column_names' = r.aliased_column_names
               /\ ambiguous_requests' = r.ambiguous_requests
               /\ input_source' = InputSource(list_of_data, r)
               /\ stderr' = IF include_aliases_dict(r) THEN stderr
                            ELSE Append(stderr, aliases_warn)
               /\ explicit' = given
               /\ args' = TokenList(given, list, list_of_data)
               /\ pc' = "loop"
               /\ exc' = exc
    /\ UNCHANGED <<list_of_data, idx, output, stdout, namespace, result>>

\* a call of cat_control with a token list of the caller's choice
CatControlBegin ==
    /\ \E given \in BOOLEAN : CatControlCall(given, args)
    /\ UNCHANGED <<mainvars, evalvars, parsevars>>

\* one iteration of `for arg in args` on the token arg
Iterate(arg) ==
    \E st \in {ProcessArg(list_of_data, Resolved, input_source, Loop, arg)} :
       /\ output' = st.output
       /\ stderr' = st.stderr
       /\ stdout' = st.stdout
       /\ exc' = st.exc
       /\ pc' = IF st.exc # "" THEN "raised" ELSE "loop"
       /\ idx' = idx + 1
       /\ UNCHANGED <<list_of_data, aliases, column_names, aliased_column_names,
                      ambiguous_requests, input_source, explicit, namespace, result,
                      mainvars, evalvars, parsevars>>

\* the next token of a list that is complete: the default list built at
\* lines 603-608, or the list main passes
CatDefaultArg ==
    /\ pc = "loop"
    /\ idx <= Len(args)
    /\ args' = args
    /\ Iterate(args[idx])

\* the next token of the caller's list
CatArg ==
    /\ pc = "loop"
    /\ explicit
    /\ idx = Len(args) + 1
    /\ Len(args) < MaxArgs
    /\ \E arg \in Tokens(Resolved) :
          /\ args' = Append(args, arg)
          /\ Iterate(arg)

\* lines 677-682: the list is exhausted
CatControlReturn ==
    /\ pc = "loop"
    /\ idx = Len(args) + 1
    /\ explicit => Len(args) >= 1
    /\ LET e == TabularFile(output, TRUE)
       IN IF e # ""
          THEN /\ pc' = "raised"
               /\ exc' = e
               /\ UNCHANGED <<namespace, result>>
          ELSE /\ pc' = "done"
               /\ exc' = exc
               /\ namespace' = Update(input_source, output)
               /\ result' = output
    /\ UNCHANGED <<list_of_data, args, idx, aliases, column_names, aliased_column_names,
                   ambiguous_requests, input_source, output, stderr, stdout, explicit,
                   mainvars, evalvars, parsevars>>

Next == CatControlBegin \/ CatDefaultArg \/ CatArg \/ CatControlReturn

Spec == Init /\ [][Next]_vars

(***************************************************************************)
(* main, from the instructions parse_args returned: the files are loaded,  *)
(* `list` and `headerlist` are served from the first file, and otherwise   *)
(* cat_control runs on instructions["process"] and the postprocess         *)
(* directive on what it returned.  The statements of an assert directive   *)
(* are drawn one at a time as the loop of line 781 reaches them.           *)
(***************************************************************************)
MaxMainTables == 1     \* most files of one command line
MaxProcess == 2        \* most tokens after `cat`
MaxAsserts == 2        \* most statements after `assert`

\* a file with a column named like an entry of the evaluator's vocabulary
VocabularyShape ==
    [alias |-> NoAlias, head |-> << <<"o", "n", "e", "s">>, <<"c">> >>, json |-> FALSE]

MainDataLists ==
    { [i \in 1..Len(shapes) |-> FromFile(shapes[i], i)] :
          shapes \in SeqsUpTo(FileShapes \cup {VocabularyShape}, MaxMainTables) }

TokVocabulary == <<"o", "n", "e", "s", "=", "a">>                 \* ones=a

\* the tokens a command line is tried with
MainTokens(lod) == AliasSet(lod) \cup {<<"a">>, TokDelete, TokOnes, TokSum, TokVocabulary}

MainActions == {"print", "list", "headerlist", "assert"}

StmtZero == <<"0">>                                                      \* 0
StmtLenA == <<"l", "e", "n", "(", "a", ")">>                             \* len(a)
StmtLenAliases == <<"l", "e", "n", "(">> \o ALIASES \o <<")">>           \* len(__aliases)

AssertStatements == {StmtZero, StmtLenA, StmtLenAliases}

\* the directive parse_args builds for each action (the statements of assert come one by one)
MainDirective(action) ==
    CASE action = "print" -> DefaultPostprocess
      [] action = "assert" -> Postprocess(action, PyList(<<>>))
      [] OTHER -> Postprocess(action, PyNone)

InitMain ==
    /\ list_of_data \in MainDataLists
    /\ pc = "main"
    /\ process \in SeqsUpTo(MainTokens(list_of_data), MaxProcess)
    /\ postprocess \in {MainDirective(a) : a \in MainActions}
    /\ given_source = <<>>
    /\ given_eval_str = <<>>
    /\ argv = <<>>
    /\ Idle

no_files_warn == [w |-> "No files to read in.", label |-> <<>>]
no_file_error == [w |-> "ERROR: No file given - nothing to list", label |-> <<>>]
many_files_error == [w |-> "ERROR: Can only list one file at a time", label |-> <<>>]

\* lines 703-718: the files are read
MainLoad ==
    /\ pc = "main"
    /\ pc' = "start"
    /\ stderr' = IF Len(list_of_data) = 0 THEN Append(stderr, no_files_warn) ELSE stderr
    /\ UNCHANGED <<list_of_data, args, idx, aliases, column_names, aliased_column_names,
                   ambiguous_requests, input_source, output, explicit, namespace, result,
                   mainvars, evalvars, parsevars, exc, stdout>>

\* TabularFile.list_headers: `col | length | header`, or `name | type` when an
\* entry has no length
list_headers(content) ==
    IF \A i \in 1..Len(content) : HasLen(content[i].v)
    THEN [i \in 1..Len(content) |->
             [col |-> i - 1, length |-> Len(content[i].v.v), header |-> content[i].k]]
    ELSE [i \in 1..Len(content) |-> [name |-> content[i].k, type |-> content[i].v.t]]

\* TabularFile.basic_list_headers: one header per line
basic_list_headers(content) == KeyList(content)

\* lines 727-741: `list` and `headerlist` return before cat_control is called
MainList ==
    /\ pc = "start"
    /\ postprocess.action \in {"list", "headerlist"}
    /\ IF Len(list_of_data) # 1
       THEN /\ stderr' = Append(stderr, IF Len(list_of_data) = 0 THEN no_file_error
                                         ELSE many_files_error)
            /\ return_code' = 1
            /\ listing' = listing
       ELSE /\ stderr' = stderr
            /\ return_code' = 0
            /\ listing' = IF postprocess.action = "list"
                          THEN list_headers(list_of_data[1].content)
                          ELSE basic_list_headers(list_of_data[1].content)
    /\ pc' = "returned"
    /\ UNCHANGED <<list_of_data, args, idx, aliases, column_names, aliased_column_names,
                   ambiguous_requests, input_source, output, explicit, namespace, result,
                   process, postprocess, report, evalvars, parsevars, exc, stdout>>

\* line 746: cat_control(list_of_data=list_of_data, args=instructions["process"])
MainCat ==
    /\ postprocess.action \notin {"list", "headerlist"}
    /\ CatControlCall(process # <<>>, process)
    /\ UNCHANGED <<mainvars, evalvars, parsevars>>

\* lines 757-762 with as_text: the widest header of an empty table is max() of nothing
MainPrint ==
    /\ pc = "done"
    /\ postprocess.action = "print"
    /\ IF result = <<>>
       THEN pc' = "raised" /\ exc' = "ValueError" /\ return_code' = return_code
       ELSE pc' = "returned" /\ exc' = exc /\ return_code' = 0
    /\ UNCHANGED <<catvars, process, postprocess, listing, report, evalvars, parsevars, stdout>>

\* bool(val): [raised, b]
PyBool(x) ==
    IF x.t = "number" THEN [raised |-> FALSE, b |-> x.v[1] # 0]
    ELSE IF x.t = "None" THEN [raised |-> FALSE, b |-> FALSE]
    ELSE IF x.t = "dict" THEN [raised |-> FALSE, b |-> Len(x.v) > 0]
    ELSE IF x.t = "array"
         THEN IF Len(x.v) = 0 THEN [raised |-> FALSE, b |-> FALSE]
              ELSE IF Len(x.v) = 1 THEN [raised |-> FALSE, b |-> x.v[1] # 0]
              ELSE [raised |-> TRUE, b |-> FALSE]
    ELSE [raised |-> FALSE, b |-> TRUE]

\* AssertCode that keeps the result of the last statement only
AssertCodeOfLast(code, passed) == IF passed THEN 0 ELSE 1

\* line 786: return_code = max(return_code, 0 if bool(val) else 1)
AssertCode(code, passed) ==
    IF code >= (IF passed THEN 0 ELSE 1) THEN code ELSE (IF passed THEN 0 ELSE 1)

\* lines 782-791 for the value s = eval_from_dict(eval_data, assert_statement)
AssertOne(assert_statement, s) ==
    IF IsRaise(s.val)
    THEN /\ pc' = "raised"
         /\ exc' = s.val.t
         /\ stdout' = IF s.printed THEN Append(stdout, assert_statement) ELSE stdout
         /\ UNCHANGED <<return_code, report>>
    ELSE IF PyBool(s.val).raised
    THEN /\ pc' = "raised"
         /\ exc' = "ValueError"
         /\ UNCHANGED <<stdout, return_code, report>>
    ELSE /\ pc' = "done"
         /\ return_code' = AssertCode(return_code, PyBool(s.val).b)
         /\ report' = Append(report, [statement |-> assert_statement, val |-> s.val,
                                      passed |-> PyBool(s.val).b])
         /\ UNCHANGED <<exc, stdout>>

\* one iteration of `for assert_statement in instructions["postprocess"].argument`
MainAssert ==
    /\ pc = "done"
    /\ postprocess.action = "assert"
    /\ Len(postprocess.argument.v) < MaxAsserts
    /\ \E assert_statement \in AssertStatements :
          /\ postprocess' = Postprocess("assert", PyList(Append(postprocess.argument.v, assert_statement)))
          /\ \E s \in {eval_from_dict(namespace, assert_statement)} :
                AssertOne(assert_statement, s)
    /\ UNCHANGED <<catvars, process, listing, evalvars, parsevars>>

\* lines 792-793: the statements are exhausted
MainReturn ==
    /\ pc = "done"
    /\ postprocess.action = "assert"
    /\ Len(postprocess.argument.v) >= 1
    /\ pc' = "returned"
    /\ UNCHANGED <<catvars, mainvars, evalvars, parsevars, exc, stdout>>

NextMain ==
    \/ MainLoad \/ MainList \/ MainCat \/ CatDefaultArg \/ CatControlReturn
    \/ MainPrint \/ MainAssert \/ MainReturn

SpecMain == InitMain /\ [][NextMain]_vars

(***************************************************************************)
(* A call of cat_control whose token list is tried with assignment tokens  *)
(* of every shape (a comparison, no label, no expression) and is long      *)
(* enough to copy, delete and insert again.                                *)
(***************************************************************************)
MaxAssignTables == 1
MaxAssignArgs == 3

AssignShapes ==
    { [alias |-> <<"A">>, head |-> << <<"a">>, <<"b">> >>, json |-> FALSE],
      [alias |-> NoAlias, head |-> << <<"a">>, <<"c">> >>, json |-> FALSE] }

AssignDataLists ==
    { [i \in 1..Len(shapes) |-> FromFile(shapes[i], i)] :
          shapes \in SeqsUpTo(AssignShapes, MaxAssignTables) }

TokAB == <<"a", "=", "b">>                                   \* a=b
TokEq == <<"x", "=", "a", "=", "=", "b">>                    \* x=a==b
TokNoLabel == <<" ", "=", "z">>                              \* ` =z`
TokNoExpr == <<"a", "=", " ">>                               \* `a= `
TokBare == <<"=">>                                           \* =

AssignTokens(r) ==
    r.aliases \cup r.column_names \cup {TokDelete, TokAB, TokEq, TokNoLabel, TokNoExpr, TokBare}

InitAssign ==
    /\ list_of_data \in AssignDataLists
    /\ pc = "start"
    /\ process = <<>>
    /\ postprocess = DefaultPostprocess
    /\ given_source = <<>>
    /\ given_eval_str = <<>>
    /\ argv = <<>>
    /\ Idle

\* the next token of the caller's list
CatArgAssign ==
    /\ pc = "loop"
    /\ explicit
    /\ idx = Len(args) + 1
    /\ Len(args) < MaxAssignArgs
    /\ \E arg \in AssignTokens(Resolved) :
          /\ args' = Append(args, arg)
          /\ Iterate(arg)

NextAssign == CatControlBegin \/ CatDefaultArg \/ CatArgAssign \/ CatControlReturn

SpecAssign == InitAssign /\ [][NextAssign]_vars

(***************************************************************************)
(* A call parse_args(args_in): the argument list is the input, the three   *)
(* entries of the instructions it returns are the result.                  *)
(***************************************************************************)
MaxWords == 4

WCat == <<"c", "a", "t">>
WAssert == <<"a", "s", "s", "e", "r", "t">>
WOutput == <<"o", "u", "t", "p", "u", "t">>
WBurst == <<"b", "u", "r", "s", "t">>
WPrint == <<"p", "r", "i", "n", "t">>
WList == <<"l", "i", "s", "t">>
WHeaderlist == <<"h", "e", "a", "d", "e", "r", "l", "i", "s", "t">>
WHelp == <<"h", "e", "l", "p">>
HelpWords == {<<"-", "h">>, <<"-", "-", "h", "e", "l", "p">>, WHelp}

\* the file names for which pathlib.Path(arg).is_file() holds
ExistingFiles == {<<"f">>}

WFile == <<"f">>                            \* f
WAliasedStdin == <<"A", "=", "-">>          \* A=-
WOther == <<"x">>                           \* x

Words ==
    {WFile, WAliasedStdin, WOther, WCat, WAssert, WOutput, WBurst, WPrint, WList,
     WHeaderlist, WHelp}

ArgLists == SeqsUpTo(Words, MaxWords)

\* the action named by a postprocess keyword
ActionOf(arg) ==
    CASE arg = WAssert -> "assert"
      [] arg = WOutput -> "output"
      [] arg = WBurst -> "burst"
      [] arg = WPrint -> "print"
      [] arg = WList -> "list"
      [] arg = WHeaderlist -> "headerlist"
      [] OTHER -> "gather"

\* the namedtuple Gather
Gather(filename, alias) == [filename |-> filename, alias |-> alias]

\* lines 330-338
NewInstructions ==
    [exc |-> "", gather |-> <<>>, process |-> <<>>, postprocess |-> DefaultPostprocess]

\* line 374 and line 382
IsInput(arg) ==
    \/ arg \in ExistingFiles
    \/ arg = <<"-">>
    \/ (Len(arg) >= 2 /\ SubSeq(arg, 1, 2) = <<"-", ".">>)

\* lines 372-387
ParseGather(ins, arg) ==
    IF IsInput(arg)
    THEN [ins EXCEPT !.gather = Append(@, Gather(arg, PyNone))]
    ELSE IF HasChar(arg, "=") /\ IsInput(SplitFirst(arg, "=")[2])
    THEN [ins EXCEPT !.gather = Append(@, Gather(SplitFirst(arg, "=")[2],
                                                     PyStr(SplitFirst(arg, "=")[1])))]
    ELSE [ins EXCEPT !.exc = "FileNotFoundError"]

\* ParseAssert that keeps only the statement read last
ParseAssertKeepsLast(ins, arg) ==
    [ins EXCEPT !.postprocess = Postprocess("assert", PyList(<<arg>>))]

\* lines 392-399
ParseAssert(ins, arg) ==
    IF ins.postprocess.action # "assert"
    THEN [ins EXCEPT !.postprocess = Postprocess("assert", PyList(<<arg>>))]
    ELSE [ins EXCEPT !.postprocess =
              Postprocess("assert", PyList(Append(ins.postprocess.argument.v, arg)))]

\* ParseSingle that does not look at the arguments left
ParseSingleIgnoresRest(ins, task, arg, rest) ==
    [ins EXCEPT !.postprocess = Postprocess(task, PyStr(arg))]

\* lines 401-404: output, burst and print take one argument
ParseSingle(ins, task, arg, rest) ==
    [ins EXCEPT !.postprocess = Postprocess(task, PyStr(arg)),
                !.exc = IF Len(rest) # 0 THEN "Exception" ELSE ""]

\* lines 363-369: list and headerlist take none
ParseList(ins, task, rest) ==
    [ins EXCEPT !.postprocess = Postprocess(task, PyNone),
                !.exc = IF Len(rest) # 0 THEN "Exception" ELSE ""]

\* lines 345-409: the loop `while len(args) > 0`, with task the current task
\* (stage is "gather", "process" or "postprocess" as task says)
RECURSIVE ParseLoop(_, _, _)
ParseLoop(ins, task, args_left) ==
    IF ins.exc # "" \/ Len(args_left) = 0 THEN ins
    ELSE LET arg == Head(args_left)
             rest == Tail(args_left)
         IN IF arg = WCat THEN ParseLoop(ins, "cat", rest)
            ELSE IF arg \in {WAssert, WOutput, WBurst, WPrint}
            THEN ParseLoop(ins, ActionOf(arg), rest)
            ELSE IF arg \in {WList, WHeaderlist}
            THEN ParseLoop(ParseList(ins, ActionOf(arg), rest), ActionOf(arg), rest)
            ELSE IF task = "gather" THEN ParseLoop(ParseGather(ins, arg), task, rest)
            ELSE IF task = "cat"
            THEN ParseLoop([ins EXCEPT !.process = Append(@, arg)], task, rest)
            ELSE IF task = "assert" THEN ParseLoop(ParseAssert(ins, arg), task, rest)
            ELSE IF task \in {"output", "burst", "print"}
            THEN ParseLoop(ParseSingle(ins, task, arg, rest), task, rest)
            ELSE [ins EXCEPT !.exc = "Exception"]

\* lines 326-411: the help test of line 341, then the loop
parse_args(args_in) ==
    IF Len(args_in) = 0 \/ \E i \in 1..Len(args_in) : args_in[i] \in HelpWords
    THEN [NewInstructions EXCEPT !.postprocess = Postprocess("help", PyNone)]
    ELSE ParseLoop(NewInstructions, "gather", args_in)

InitParse ==
    /\ list_of_data = <<>>
    /\ pc = "parse"
    /\ process = <<>>
    /\ postprocess = DefaultPostprocess
    /\ given_source = <<>>
    /\ given_eval_str = <<>>
    /\ argv \in ArgLists
    /\ Idle

\* the call: it returns the instructions, or raises
ParseArgs ==
    /\ pc = "parse"
    /\ \E instructions \in {parse_args(argv)} :
          IF instructions.exc # ""
          THEN /\ pc' = "raised"
               /\ exc' = instructions.exc
               /\ UNCHANGED <<gather, process, postprocess>>
          ELSE /\ pc' = "parsed"
               /\ exc' = exc
               /\ gather' = instructions.gather
               /\ process' = instructions.process
               /\ postprocess' = instructions.postprocess
    /\ UNCHANGED <<catvars, return_code, listing, report, evalvars, argv, stdout>>

NextParse == ParseArgs

SpecParse == InitParse /\ [][NextParse]_vars

(***************************************************************************)
(* A direct call eval_from_dict(source, eval_str), as the tests make it:   *)
(* the mapping and the expression are the inputs.                          *)
(***************************************************************************)
MaxSourceKeys == 2     \* most keys of a source mapping

VOCAB_ONES == <<"o", "n", "e", "s">>

\* the keys a source mapping is built from and the array of each
SourceNames == {<<"A">>, <<"B">>, <<"C">>, <<"E">>, <<"S">>, VOCAB_ONES}

SourceValue(k) ==
    CASE k = <<"A">> -> Arr(<<8, 5, 8>>)
      [] k = <<"B">> -> Arr(<<2, 8, 2>>)
      [] k = <<"C">> -> Arr(<<3, 7>>)
      [] k = <<"E">> -> Arr(<<>>)
      [] k = <<"S">> -> Arr(<<4>>)
      [] OTHER -> Arr(<<1, 1, 1>>)

Distinct(q) == \A i, j \in 1..Len(q) : q[i] = q[j] => i = j

Sources ==
    { [i \in 1..Len(ks) |-> [k |-> ks[i], v |-> SourceValue(ks[i])]] :
          ks \in {q \in SeqsUpTo(SourceNames, MaxSourceKeys) : Distinct(q)} }

ExprUndefinedSum == <<"D", "+", "Z">>                        \* D+Z
ExprUndefinedCall == <<"D", "(", "A", ")">>                  \* D(A)
ExprAddOne == <<"A", "+", "1">>                              \* A+1
ExprAddAB == <<"A", "+", "B">>                               \* A+B
ExprAddAC == <<"A", "+", "C">>                               \* A+C
ExprAddEB == <<"E", "+", "B">>                               \* E+B
ExprAddAZ == <<"A", "+", "Z">>                               \* A+Z
ExprAddSB == <<"S", "+", "B">>                               \* S+B
ExprAddSE == <<"S", "+", "E">>                               \* S+E
ExprLen == <<"l", "e", "n", "(", "A", ")">>                  \* len(A)
ExprOnes == <<"o", "n", "e", "s", "(", "2", ")">>            \* ones(2)
ExprNone == <<"N", "o", "n", "e">>                           \* None
ExprBroken == <<"A", "+">>                                   \* A+
ExprCallArray == <<"A", "(", "B", ")">>                      \* A(B)
ExprCallNumber == <<"1", "(", "2", ")", "+", "Z">>           \* 1(2)+Z
ExprTwo == <<"2">>                                           \* 2

Expressions ==
    {ExprUndefinedSum, ExprUndefinedCall, ExprAddOne, ExprAddAB, ExprAddAC, ExprAddEB,
     ExprAddAZ, ExprAddSB, ExprAddSE, ExprLen, ExprOnes, ExprNone, ExprBroken, ExprCallArray, ExprCallNumber,
     ExprTwo}

InitEval ==
    /\ list_of_data = <<>>
    /\ pc = "eval"
    /\ process = <<>>
    /\ postprocess = DefaultPostprocess
    /\ given_source \in Sources
    /\ given_eval_str \in Expressions
    /\ argv = <<>>
    /\ Idle

\* the call: it returns series, or raises
EvalFromDict ==
    /\ pc = "eval"
    /\ \E s \in {eval_from_dict(given_source, given_eval_str)} :
          /\ IF IsRaise(s.val)
             THEN pc' = "raised" /\ exc' = s.val.t /\ returned_series' = returned_series
             ELSE pc' = "returned" /\ exc' = exc /\ returned_series' = s.val
          /\ stdout' = IF s.printed THEN Append(stdout, given_eval_str) ELSE stdout
    /\ UNCHANGED <<catvars, mainvars, parsevars, given_source, given_eval_str>>

NextEval == EvalFromDict

SpecEval == InitEval /\ [][NextEval]_vars

(***************************************************************************)
(* Vocabulary of the properties.                                           *)
(***************************************************************************)
\* cat_control is past verify_no_naming_collisions
Resolving == pc \in {"loop", "done"} \/ (pc = "raised" /\ exc # "DuplicateAlias")

\* a token has been handled, and LastArg is the last one
Handled == Resolving /\ idx > 1
LastArg == args[idx - 1]

\* this step is one iteration of the loop, on token args'[idx]
TokenStep == pc = "loop" /\ idx' = idx + 1

\* the (table, column) positions of the input
Cells == UNION {{<<i, j>> : j \in 1..Len(list_of_data[i].content)} : i \in 1..Len(list_of_data)}
ColumnAt(c) == list_of_data[c[1]].content[c[2]]

\* where a name occurs: as an alias, as a bare column name, as alias + column name
AsAlias(n) == {i \in 1..Len(list_of_data) : list_of_data[i].alias # NoAlias /\ list_of_data[i].alias = n}
AsColumn(n) == {c \in Cells : ColumnAt(c).k = n}
AsAliasedColumn(n) ==
    {c \in Cells : list_of_data[c[1]].alias # NoAlias /\ list_of_data[c[1]].alias \o ColumnAt(c).k = n}
Occurrences(n) ==
    Cardinality(AsAlias(n)) + Cardinality(AsColumn(n)) + Cardinality(AsAliasedColumn(n))
InputNames ==
    {list_of_data[i].alias : i \in {n \in 1..Len(list_of_data) : list_of_data[n].alias # NoAlias}}
    \cup {ColumnAt(c).k : c \in Cells}
    \cup {list_of_data[c[1]].alias \o ColumnAt(c).k : c \in {d \in Cells : list_of_data[d[1]].alias # NoAlias}}

(***************************************************************************)
(* C1: a token that is in ambiguous_requests makes cat_control fail with   *)
(* AmbiguousRequest at that token (nothing after it is handled, no table   *)
(* is returned), for every list of tables and every token list.            *)
(***************************************************************************)
C1_AmbiguousTokenFails ==
    \A i \in 1..(idx - 1) :
        (Resolving /\ args[i] \in ambiguous_requests)
            => (pc = "raised" /\ exc = "AmbiguousRequest" /\ i = idx - 1 /\ result = <<>>)

\* two tables without alias that both have a column `a`, and the token `a`
C1_Witness ==
    /\ Len(list_of_data) = 2
    /\ \A i \in 1..2 : list_of_data[i].alias = NoAlias /\ Has(list_of_data[i].content, <<"a">>)
    /\ explicit
    /\ args = << <<"a">> >>
    /\ pc = "raised"
    /\ exc = "AmbiguousRequest"

(***************************************************************************)
(* C2: for a table with alias X (of any length) and column c such that the *)
(* name X+c is not ambiguous, the token X+c puts that table's column c     *)
(* into the output under the name c.                                       *)
(***************************************************************************)
C2_AliasedTokenCopiesColumn ==
    \A c \in Cells :
        (/\ Handled
         /\ list_of_data[c[1]].alias # NoAlias
         /\ LastArg = list_of_data[c[1]].alias \o ColumnAt(c).k
         /\ LastArg \notin ambiguous_requests)
            => (Has(output, ColumnAt(c).k) /\ Get(output, ColumnAt(c).k) = ColumnAt(c).v)

(***************************************************************************)
(* C3: with an empty token list cat_control does not fail with             *)
(* AmbiguousRequest, even when a column name is in ambiguous_requests.     *)
(***************************************************************************)
C3_FullDumpNeverAmbiguous ==
    (Resolving /\ ~explicit) => exc # "AmbiguousRequest"

(***************************************************************************)
(* C4: a bare column name that is a column of exactly one table and equals *)
(* no alias and no alias+column name is never in ambiguous_requests, and   *)
(* as a token it copies that table's column into the output, whatever      *)
(* other names are ambiguous.                                              *)
(***************************************************************************)
UniqueBare(n) ==
    /\ Cardinality(AsColumn(n)) = 1
    /\ AsAlias(n) = {}
    /\ AsAliasedColumn(n) = {}

C4_UniqueBareNameResolves ==
    \A c \in Cells :
        (Resolving /\ UniqueBare(ColumnAt(c).k))
            => /\ ColumnAt(c).k \notin ambiguous_requests
               /\ (Handled /\ LastArg = ColumnAt(c).k)
                      => /\ exc \notin {"AmbiguousRequest", "UnresolvedToken", "KeyError"}
                         /\ Has(output, ColumnAt(c).k)
                         /\ Get(output, ColumnAt(c).k) = ColumnAt(c).v

\* a unique bare name is copied from the second table while other names are ambiguous
C4_Witness ==
    /\ Handled
    /\ pc = "loop"
    /\ ambiguous_requests # {}
    /\ \E c \in Cells :
          /\ c[1] = 2
          /\ UniqueBare(ColumnAt(c).k)
          /\ LastArg = ColumnAt(c).k
          /\ Get(output, ColumnAt(c).k) = ColumnAt(c).v

(***************************************************************************)
(* C5: for tables without duplicate aliases, ambiguous_requests is exactly *)
(* the set of names that occur at least twice among the aliases, the bare  *)
(* column names and the alias+column names.                                *)
(***************************************************************************)
C5_AmbiguousIffTwice ==
    Resolving => ambiguous_requests = {n \in InputNames : Occurrences(n) >= 2}

\* AAa is ambiguous as the alias+column name of two tables, while b occurs once
C5_Witness ==
    /\ pc = "loop"
    /\ <<"A", "A", "a">> \in ambiguous_requests
    /\ AsAliasedColumn(<<"A", "A", "a">>) = {<<1, 1>>, <<2, 2>>}
    /\ AsColumn(<<"A", "A", "a">>) = {}
    /\ \E n \in InputNames : Occurrences(n) = 1 /\ n \notin ambiguous_requests

(***************************************************************************)
(* C6: a token that is the (unambiguous) alias of a table copies all the   *)
(* columns of that table, in the table's order, under their bare names;    *)
(* a column the output already has keeps its position, takes the table's   *)
(* value and is warned about; no column name is checked for ambiguity.     *)
(***************************************************************************)
Clobbered(content) == SelectSeq(KeyList(content), LAMBDA k : Has(output, k))
Added(content) == SelectSeq(KeyList(content), LAMBDA k : ~Has(output, k))

WholeTableCopied(content) ==
    /\ pc' = "loop"
    /\ exc' = ""
    /\ KeyList(output') = KeyList(output) \o Added(content)
    /\ \A j \in 1..Len(content) : Get(output', content[j].k) = content[j].v
    /\ \A j \in 1..Len(output) :
          ~Has(content, output[j].k) => Get(output', output[j].k) = output[j].v
    /\ stderr' = stderr \o [n \in 1..Len(Clobbered(content)) |-> clobber_warn(Clobbered(content)[n])]

C6_AliasTokenCopiesTable ==
    [][(TokenStep /\ Occurrences(args'[idx]) = 1 /\ AsAlias(args'[idx]) # {})
          => \A i \in AsAlias(args'[idx]) : WholeTableCopied(list_of_data[i].content)]_vars

\* `cat A B` for tables A and B that share the column b: b ends with B's values
C6_Witness ==
    /\ Len(list_of_data) = 2
    /\ args = << <<"A">>, <<"B">> >>
    /\ pc = "loop"
    /\ idx = 3
    /\ <<"b">> \in ambiguous_requests
    /\ Has(list_of_data[1].content, <<"b">>)
    /\ Get(list_of_data[1].content, <<"b">>) # Get(list_of_data[2].content, <<"b">>)
    /\ Get(output, <<"b">>) = Get(list_of_data[2].content, <<"b">>)
    /\ KeyList(output) = << <<"a">>, <<"b">>, <<"A", "a">> >>
    /\ stderr = <<clobber_warn(<<"b">>)>>

(***************************************************************************)
(* C7: a token is handled by the first rule that matches, in the order     *)
(* ambiguous (fail), alias, bare column name, alias+column name, contains  *)
(* "=" (assignment), otherwise fail with UnresolvedToken.  A token that is *)
(* a column or alias name is never evaluated as an assignment, even when   *)
(* it contains "=", and a token that matches no rule always fails.         *)
(***************************************************************************)
HeadOf(arg) == Strip(SplitFirst(arg, "=")[1])

\* the step did not treat arg as `head=expr`
NotEvaluated(arg) ==
    /\ stdout' = stdout
    /\ exc' \notin {"EmptyLabel", "EmptyExpression", "RemoveNotFound", "NameError",
                    "SyntaxError", "TypeError", "ValueError", "UnresolvedToken"}
    /\ HasChar(arg, "=") =>
          /\ Has(output', HeadOf(arg)) <=> Has(output, HeadOf(arg))
          /\ Has(output, HeadOf(arg)) => Get(output', HeadOf(arg)) = Get(output, HeadOf(arg))

Precedence(arg) ==
    IF Occurrences(arg) >= 2
    THEN exc' = "AmbiguousRequest" /\ pc' = "raised" /\ output' = output
    ELSE IF AsAlias(arg) # {}
    THEN exc' = "" /\ NotEvaluated(arg)
         /\ \A i \in AsAlias(arg) : Keys(list_of_data[i].content) \subseteq Keys(output')
    ELSE IF AsColumn(arg) # {}
    THEN exc' = "" /\ NotEvaluated(arg) /\ Has(output', arg)
         /\ \A c \in AsColumn(arg) : Get(output', arg) = ColumnAt(c).v
    ELSE IF AsAliasedColumn(arg) # {}
    THEN NotEvaluated(arg)
    ELSE IF HasChar(arg, "=")
    THEN /\ exc' \notin {"UnresolvedToken", "AmbiguousRequest"}
         /\ exc' = "" => Keys(output') \ {HeadOf(arg)} = Keys(output) \ {HeadOf(arg)}
         /\ exc' = "" => (Has(output', HeadOf(arg)) \/ Has(output, HeadOf(arg)))
    ELSE exc' = "UnresolvedToken" /\ pc' = "raised" /\ output' = output

C7_FixedPrecedence == [][TokenStep => Precedence(args'[idx])]_vars

\* the token b=a is the name of a column: it is copied, and no column b is created
C7_Witness ==
    /\ Handled
    /\ pc = "loop"
    /\ explicit
    /\ LastArg = <<"b", "=", "a">>
    /\ LastArg \in column_names
    /\ Has(output, LastArg)
    /\ ~Has(output, <<"b">>)

(***************************************************************************)
(* C8: the expression of an assignment token is evaluated with every name  *)
(* bound to the output column of that name if there is one, and otherwise  *)
(* to the input column it names unambiguously (bare or alias-prefixed).    *)
(***************************************************************************)
InputCells(n) == AsColumn(n) \cup AsAliasedColumn(n)

Binding(n) ==
    IF Has(output, n) THEN Get(output, n)
    ELSE IF Occurrences(n) = 1 /\ InputCells(n) # {}
         THEN ColumnAt(CHOOSE c \in InputCells(n) : TRUE).v
    ELSE Raise("NameError")

\* the step stores val under head, or fails as val does
Assigned(head, val) ==
    IF IsRaise(val) THEN exc' = val.t /\ pc' = "raised" /\ output' = output
    ELSE exc' = "" /\ Has(output', head) /\ Get(output', head) = val

SumOf(x, y) == IF IsRaise(x) THEN x ELSE IF IsRaise(y) THEN y ELSE PyAdd(x, y)

C8_AssignmentNamespace ==
    [][TokenStep =>
          /\ (args'[idx] = TokSum /\ Occurrences(TokSum) = 0)
                => Assigned(<<"d">>, SumOf(Binding(<<"a">>), Binding(<<"A", "b">>)))
          /\ (args'[idx] = TokCopy /\ Occurrences(TokCopy) = 0)
                => Assigned(<<"b">>, Binding(<<"a">>))
          /\ (args'[idx] = TokPrefixed /\ Occurrences(TokPrefixed) = 0)
                => Assigned(<<"A", "a">>, Binding(<<"b">>))]_vars

\* one table A with columns a, b: the tokens A, d=a+Ab give a, b, d with d = a + b
C8_Witness ==
    /\ Len(list_of_data) = 1
    /\ list_of_data[1].alias = <<"A">>
    /\ KeyList(list_of_data[1].content) = << <<"a">>, <<"b">> >>
    /\ args = << <<"A">>, TokSum >>
    /\ pc = "loop"
    /\ idx = 3
    /\ KeyList(output) = << <<"a">>, <<"b">>, <<"d">> >>
    /\ Get(output, <<"d">>) =
           Arr([r \in 1..Rows |-> list_of_data[1].content[1].v.v[r]
                                    + list_of_data[1].content[2].v.v[r]])

(***************************************************************************)
(* C9: when the expression of `head=expr` evaluates to None, the column    *)
(* head is removed from the output with a remove warning and the other     *)
(* columns are unchanged; if the output has no column head the call fails  *)
(* with RemoveNotFound, also when head is an input column never copied.    *)
(***************************************************************************)
C9_DeleteSentinel ==
    [][(TokenStep /\ args'[idx] = TokDelete /\ Occurrences(TokDelete) = 0) =>
          IF Has(output, <<"a">>)
          THEN /\ exc' = ""
               /\ pc' = "loop"
               /\ output' = SelectSeq(output, LAMBDA e : e.k # <<"a">>)
               /\ stderr' = Append(stderr, remove_warn(<<"a">>))
          ELSE /\ exc' = "RemoveNotFound"
               /\ pc' = "raised"
               /\ output' = output
               /\ stderr' = stderr]_vars

\* the tokens A, a=None on one table A with columns a, b leave b alone
C9_Witness ==
    /\ Len(list_of_data) = 1
    /\ list_of_data[1].alias = <<"A">>
    /\ args = << <<"A">>, TokDelete >>
    /\ pc = "loop"
    /\ idx = 3
    /\ output = <<[k |-> <<"b">>, v |-> Get(list_of_data[1].content, <<"b">>)]>>
    /\ stderr = <<remove_warn(<<"a">>)>>

(***************************************************************************)
(* C10: a clobber warning is emitted once for each insertion whose target  *)
(* is already a column of the output, and for no other; the insertion      *)
(* still happens and the loop goes on with the next token.                 *)
(***************************************************************************)
NewWarnings == SubSeq(stderr', Len(stderr) + 1, Len(stderr'))
NewClobbers == SelectSeq(NewWarnings, LAMBDA w : w.w = "clobbering column")

C10_ClobberWarnings ==
    [][TokenStep =>
          /\ \A n \in 1..Len(NewClobbers) :
                /\ Has(output, NewClobbers[n].label)
                /\ Has(output', NewClobbers[n].label)
                /\ exc' = ""
                /\ pc' = "loop"
                /\ \A m \in 1..Len(NewClobbers) : NewClobbers[m] = NewClobbers[n] => m = n
          /\ \A j \in 1..Len(output) :
                (Has(output', output[j].k) /\ Get(output', output[j].k) # output[j].v)
                    => \E n \in 1..Len(NewClobbers) : NewClobbers[n].label = output[j].k]_vars

(***************************************************************************)
(* C16: the TabularFile that cat_control builds from its output (with      *)
(* length_check true) exists only if its columns have one length: when the *)
(* output columns are arrays of one length the call returns them, when     *)
(* their lengths differ the constructor fails with IndexError, and a call  *)
(* that returns never returns columns of different lengths.                *)
(***************************************************************************)
Lengths(content) == {Len(content[i].v.v) : i \in 1..Len(content)}
Arrays(content) == \A i \in 1..Len(content) : content[i].v.t = "array"

\* this step is the end of cat_control: the constructor call of line 682
ConstructorStep == pc = "loop" /\ idx' = idx /\ pc' \in {"done", "raised"}

C16_UniformLengths ==
    [][ConstructorStep =>
          /\ (output # <<>> /\ Arrays(output)) =>
                IF Cardinality(Lengths(output)) = 1
                THEN pc' = "done" /\ result' = output
                ELSE pc' = "raised" /\ exc' = "IndexError" /\ result' = result
          /\ pc' = "done" => Cardinality(Lengths(result')) <= 1]_vars

\* the columns of table A (Rows long) with d=ones(1): the call fails with IndexError
C16_Witness ==
    /\ pc = "raised"
    /\ exc = "IndexError"
    /\ args = << <<"A">>, TokShort >>
    /\ KeyList(output) = << <<"a">>, <<"b">>, <<"d">> >>
    /\ Len(Get(output, <<"a">>).v) = Rows
    /\ Len(Get(output, <<"d">>).v) = 1
    /\ result = <<>>

(***************************************************************************)
(* C17: cat_control fails with DuplicateAlias, before any token is looked  *)
(* at, exactly when two tables of the list have the same alias; tables     *)
(* without alias never make it fail so.                                    *)
(***************************************************************************)
SharedAlias ==
    \E i, j \in 1..Len(list_of_data) :
        i < j /\ list_of_data[i].alias # NoAlias /\ list_of_data[i].alias = list_of_data[j].alias

C17_DuplicateAliasFails ==
    pc # "start" =>
        /\ SharedAlias <=> (pc = "raised" /\ exc = "DuplicateAlias")
        /\ SharedAlias => (idx = 1 /\ output = <<>> /\ result = <<>> /\ input_source = <<>>)

\* two tables with alias A and different columns
C17_Witness ==
    /\ pc = "raised"
    /\ exc = "DuplicateAlias"
    /\ Len(list_of_data) = 2
    /\ list_of_data[1].alias = <<"A">>
    /\ list_of_data[2].alias = <<"A">>
    /\ KeyList(list_of_data[1].content) # KeyList(list_of_data[2].content)

(***************************************************************************)
(* C18: for a single table with a one-letter alias whose names are all     *)
(* unambiguous, the empty token list, the alias alone and every list that  *)
(* requests each column once in file order, by its bare name or by its     *)
(* alias-prefixed name, give the same output: the table's columns in file  *)
(* order with the table's values.                                          *)
(***************************************************************************)
OneLetterAliasTable ==
    /\ Len(list_of_data) = 1
    /\ Len(list_of_data[1].alias) = 1
    /\ \A n \in InputNames : Occurrences(n) = 1

\* the token list is one of the requests of the claim, and all of it is handled
WholeTableRequest ==
    /\ Resolving
    /\ idx = Len(args) + 1
    /\ \/ ~explicit
       \/ args = <<list_of_data[1].alias>>
       \/ /\ Len(args) = Len(list_of_data[1].content)
          /\ \A j \in 1..Len(args) :
                args[j] \in {list_of_data[1].content[j].k,
                             list_of_data[1].alias \o list_of_data[1].content[j].k}

SameAsTable ==
    /\ pc \in {"loop", "done"}
    /\ output = list_of_data[1].content
    /\ pc = "done" => result = list_of_data[1].content

\* the claim as stated: for every table, namespace-only tables included
C18_EquivalentRequests == (OneLetterAliasTable /\ WholeTableRequest) => SameAsTable

\* the claim for tables that are not namespace-only
C18_EquivalentRequestsOfTextTable ==
    (OneLetterAliasTable /\ ~list_of_data[1].namespace_only /\ WholeTableRequest) => SameAsTable

\* table A with columns a, b and the tokens Aa, b
C18_Witness ==
    /\ OneLetterAliasTable
    /\ explicit
    /\ args = << <<"A", "a">>, <<"b">> >>
    /\ pc = "done"
    /\ result = list_of_data[1].content
    /\ Len(result) = 2

(***************************************************************************)
(* C12: an expression evaluated by eval_from_dict resolves only names of   *)
(* the vocabulary and keys of the source mapping; a reference to any other *)
(* name fails with NameError, as D+Z and D(A) do.                          *)
(***************************************************************************)
\* the names an expression refers to (None is a constant, not a name)
RECURSIVE NamesOf(_)
NamesOf(ast) ==
    IF ast.n = "name" THEN {ast.id} \ {<<"N", "o", "n", "e">>}
    ELSE IF ast.n = "num" THEN {}
    ELSE IF ast.n = "add" THEN NamesOf(ast.l) \cup NamesOf(ast.r)
    ELSE NamesOf(ast.f) \cup NamesOf(ast.a)

References == IF Compile(given_eval_str).ok THEN NamesOf(Compile(given_eval_str).ast) ELSE {}

Vocabulary == Keys(safe_dict)
Conflict == Vocabulary \cap Keys(given_source) # {}

\* the test cases of the claim: neither D nor Z is a key of the source
UndefinedCases ==
    (pc # "eval" /\ ~Conflict /\ given_eval_str \in {ExprUndefinedSum, ExprUndefinedCall})
        => (pc = "raised" /\ exc = "NameError")

\* the claim as stated
C12_OnlyVocabularyAndSource ==
    /\ pc = "returned" => References \subseteq (Vocabulary \cup Keys(given_source))
    /\ UndefinedCases

\* the claim with Python's builtins among the names that resolve
C12_OnlyKnownNames ==
    /\ pc = "returned" => References \subseteq (Vocabulary \cup Keys(given_source) \cup Keys(Builtins))
    /\ (pc = "raised" /\ exc = "NameError")
          => ~(References \subseteq (Vocabulary \cup Keys(given_source) \cup Keys(Builtins)))
    /\ UndefinedCases

\* D+Z with the keys A, B fails with NameError
C12_Witness ==
    /\ KeyList(given_source) = << <<"A">>, <<"B">> >>
    /\ given_eval_str = ExprUndefinedSum
    /\ pc = "raised"
    /\ exc = "NameError"

(***************************************************************************)
(* C13: when a key of the source mapping is a vocabulary name,             *)
(* eval_from_dict fails with KeyError for every expression, also one that  *)
(* does not use the name, and the expression is not evaluated.             *)
(***************************************************************************)
C13_ConflictAlwaysFails ==
    (pc # "eval" /\ Conflict)
        => (pc = "raised" /\ exc = "KeyError" /\ stdout = <<>> /\ returned_series = PyNone)

\* a source with the keys A and ones, and the expression A+1
C13_Witness ==
    /\ KeyList(given_source) = << <<"A">>, VOCAB_ONES >>
    /\ given_eval_str = ExprAddOne
    /\ pc = "raised"
    /\ exc = "KeyError"

(***************************************************************************)
(* C14: whenever eval_from_dict fails with NamingConflict (KeyError),      *)
(* UndefinedName (NameError) or LengthMismatch (ValueError), it has        *)
(* printed the line that names the expression, and the caller gets the     *)
(* original exception.                                                     *)
(***************************************************************************)
\* the claim as stated
C14_DiagnosticForEvaluatorErrors ==
    (pc = "raised" /\ exc \in {"KeyError", "NameError", "ValueError"})
        => stdout = <<given_eval_str>>

\* the claim for the faults of the evaluation; a conflict is raised without the line
C14_DiagnosticForEvaluationFaults ==
    /\ (pc = "raised" /\ ~Conflict)
          => /\ stdout = <<given_eval_str>>
             /\ exc = PyEval(given_eval_str, Update(safe_dict, given_source)).t
    /\ (pc = "raised" /\ Conflict) => (stdout = <<>> /\ exc = "KeyError")
    /\ pc = "returned" => stdout = <<>>

\* A+C with arrays of lengths 3 and 2: ValueError after the line is printed
C14_Witness ==
    /\ KeyList(given_source) = << <<"A">>, <<"C">> >>
    /\ given_eval_str = ExprAddAC
    /\ pc = "raised"
    /\ exc = "ValueError"
    /\ stdout = <<ExprAddAC>>

(***************************************************************************)
(* C11: the namespace returned by cat_control, on which main evaluates the *)
(* assert statements, has as keys the unambiguous input names (bare and    *)
(* alias-prefixed) and the names of the output columns; a name of both is  *)
(* bound to the output column, every other name to its input column, also  *)
(* when it was never copied or was removed from the output.                *)
(***************************************************************************)
\* cat_control has returned to main
CatReturned == pc = "done" \/ (pc = "returned" /\ postprocess.action \in {"print", "assert"})

UnambiguousInputNames == {n \in InputNames : Occurrences(n) = 1 /\ InputCells(n) # {}}

InputValue(n) == ColumnAt(CHOOSE c \in InputCells(n) : TRUE).v

C11_NamespaceOfInputsAndOutput ==
    CatReturned =>
        /\ Keys(namespace) = UnambiguousInputNames \cup Keys(output)
        /\ \A n \in Keys(namespace) :
              Get(namespace, n) = IF Has(output, n) THEN Get(output, n) ELSE InputValue(n)

(***************************************************************************)
(* C15: with an assert directive main evaluates every statement, in the    *)
(* given order, also after one that evaluated to a false value, and        *)
(* returns 1 if at least one value is false and 0 if all are true.         *)
(***************************************************************************)
Falsy(v) == v \in {Num(0), PyNone, Arr(<<>>), Arr(<<0>>), DictObj(0)}

C15_AssertReturnCode ==
    (pc \in {"done", "returned"} /\ postprocess.action = "assert") =>
        /\ Len(report) = Len(postprocess.argument.v)
        /\ \A i \in 1..Len(report) :
              /\ report[i].statement = postprocess.argument.v[i]
              /\ report[i].val = eval_from_dict(namespace, postprocess.argument.v[i]).val
              /\ report[i].passed = ~Falsy(report[i].val)
        /\ return_code = IF \E i \in 1..Len(report) : Falsy(report[i].val) THEN 1 ELSE 0

\* `assert 0 'len(a)'` on table A with columns a, b: both are evaluated, the code is 1
C15_Witness ==
    /\ pc = "returned"
    /\ Len(list_of_data) = 1
    /\ list_of_data[1].alias = <<"A">>
    /\ process = <<>>
    /\ postprocess = Postprocess("assert", PyList(<<StmtZero, StmtLenA>>))
    /\ Len(report) = 2
    /\ ~report[1].passed
    /\ report[2].passed
    /\ report[2].val = Num(Rows)
    /\ return_code = 1

(***************************************************************************)
(* C19: when `list` follows a cat stage, main lists the columns of the     *)
(* table cat creates, the columns created by assignment tokens included.   *)
(***************************************************************************)
\* the loop of cat_control on a whole token list
RECURSIVE RunLoop(_, _, _, _)
RunLoop(r, insrc, st, toks) ==
    IF toks = <<>> \/ st.exc # "" THEN st
    ELSE RunLoop(r, insrc, ProcessArg(list_of_data, r, insrc, st, Head(toks)), Tail(toks))

\* what cat_control makes of instructions["process"]
Created ==
    RunLoop(verify_no_naming_collisions(list_of_data),
            InputSource(list_of_data, verify_no_naming_collisions(list_of_data)),
            [output |-> <<>>, stderr |-> <<>>, stdout |-> <<>>, exc |-> ""],
            process)

C19_ListShowsCreatedTable ==
    (/\ pc = "returned"
     /\ postprocess.action = "list"
     /\ Len(list_of_data) = 1
     /\ process # <<>>
     /\ Created.exc = ""
     /\ TabularFile(Created.output, TRUE) = "")
        => listing = list_headers(Created.output)

(***************************************************************************)
(* C20: the object __aliases is no name of the namespace on which the      *)
(* assert statements are evaluated.                                        *)
(***************************************************************************)
C20_AliasesOnlyInCat ==
    (pc \in {"done", "returned"} /\ postprocess.action = "assert") => ~Has(namespace, ALIASES)

(***************************************************************************)
(* C21: the entries of a namespace-only table (loaded from JSON) are bound *)
(* in the namespace of the expressions under their unambiguous bare and    *)
(* alias-prefixed names, but the empty token list does not copy them: the  *)
(* default output is exactly the columns of the other tables, in table     *)
(* order and then column order.                                            *)
(***************************************************************************)
TextCells == {c \in Cells : ~list_of_data[c[1]].namespace_only}
Before(d, c) == d[1] < c[1] \/ (d[1] = c[1] /\ d[2] <= c[2])
Rank(c) == Cardinality({d \in TextCells : Before(d, c)})

IsTextColumns(content) ==
    /\ Len(content) = Cardinality(TextCells)
    /\ \A c \in TextCells : content[Rank(c)] = ColumnAt(c)

C21_NamespaceOnlyTables ==
    /\ Resolving =>
          \A c \in Cells \ TextCells :
              /\ Occurrences(ColumnAt(c).k) = 1 =>
                    /\ Has(input_source, ColumnAt(c).k)
                    /\ Get(input_source, ColumnAt(c).k) = ColumnAt(c).v
              /\ (list_of_data[c[1]].alias # NoAlias
                  /\ Occurrences(list_of_data[c[1]].alias \o ColumnAt(c).k) = 1) =>
                    /\ Has(input_source, list_of_data[c[1]].alias \o ColumnAt(c).k)
                    /\ Get(input_source, list_of_data[c[1]].alias \o ColumnAt(c).k) = ColumnAt(c).v
    /\ (~explicit /\ pc \in {"loop", "done"} /\ idx = Len(args) + 1) => IsTextColumns(output)
    /\ (~explicit /\ pc = "done") => IsTextColumns(result)

\* table A with columns a, b and the JSON table J with entry c: the default output is a, b
C21_Witness ==
    /\ Len(list_of_data) = 2
    /\ ~list_of_data[1].namespace_only
    /\ list_of_data[2].namespace_only
    /\ ~explicit
    /\ pc = "done"
    /\ KeyList(result) = KeyList(list_of_data[1].content)
    /\ Has(input_source, <<"c">>)
    /\ Has(input_source, <<"J", "c">>)
    /\ ~Has(result, <<"c">>)

(***************************************************************************)
(* C22: the four sets of verify_no_naming_collisions (and whether it fails *)
(* with DuplicateAlias) are the same for every order of the tables.        *)
(***************************************************************************)
Reordered(p) == [i \in 1..Len(list_of_data) |-> list_of_data[p[i]]]

\* the four sets as the call leaves them
ResolvedNext ==
    [aliases |-> aliases', column_names |-> column_names',
     aliased_column_names |-> aliased_column_names', ambiguous_requests |-> ambiguous_requests']

C22_OrderOfTablesIrrelevant ==
    [][IF pc = "start"
       THEN \A p \in Permutations(1..Len(list_of_data)) :
               IF RepeatedAliases(Reordered(p)) THEN exc' = "DuplicateAlias"
               ELSE /\ exc' = ""
                    /\ verify_no_naming_collisions(Reordered(p)) = ResolvedNext
       ELSE ResolvedNext = Resolved /\ list_of_data' = list_of_data]_vars

\* tables A (a, b) and B (b, Aa): b and Aa are ambiguous in both orders
C22_Witness ==
    /\ Resolving
    /\ Len(list_of_data) = 2
    /\ list_of_data[1].alias = <<"A">>
    /\ list_of_data[2].alias = <<"B">>
    /\ ambiguous_requests = {<<"b">>, <<"A", "a">>}

(***************************************************************************)
(* C23: eval_from_dict raises ValueError whenever the expression adds two  *)
(* arrays of incompatible lengths (different, and neither of them 1), a    *)
(* length of zero included: lengths 2 and 3, lengths 0 and 3.              *)
(***************************************************************************)
IsSumOfKeys(e) ==
    /\ Len(e) = 3
    /\ e[2] = "+"
    /\ Has(given_source, <<e[1]>>)
    /\ Has(given_source, <<e[3]>>)

Incompatible(x, y) == Len(x.v) # Len(y.v) /\ Len(x.v) # 1 /\ Len(y.v) # 1

C23_LengthMismatchFails ==
    (pc # "eval" /\ ~Conflict /\ IsSumOfKeys(given_eval_str)) =>
        IF Incompatible(Get(given_source, <<given_eval_str[1]>>),
                        Get(given_source, <<given_eval_str[3]>>))
        THEN /\ pc = "raised"
             /\ exc = "ValueError"
             /\ returned_series = PyNone
        ELSE pc = "returned"

\* E+B, with E of length 0 and B of length 3, has raised ValueError
C23_Witness ==
    /\ pc = "raised"
    /\ exc = "ValueError"
    /\ given_eval_str = ExprAddEB
    /\ Has(given_source, <<"E">>)
    /\ Has(given_source, <<"B">>)
    /\ Len(Get(given_source, <<"E">>).v) = 0
    /\ Len(Get(given_source, <<"B">>).v) = 3

(***************************************************************************)
(* C25: no name of ambiguous_requests is bound by the input tables in the  *)
(* namespace of the assignment expressions, and every unambiguous bare or  *)
(* alias-prefixed input name is bound to the column of its one table; an   *)
(* expression that refers to an ambiguous name fails with NameError        *)
(* unless the output has a column of that name by then.                    *)
(***************************************************************************)
AmbiguousOperand(n) ==
    IF Has(output, n) THEN Get(output, n) ELSE Raise("NameError")

\* the step evaluated expr, stored val under head or failed as val does
EvaluatedTo(head, expr, val) ==
    /\ Assigned(head, val)
    /\ stdout' = IF IsRaise(val) THEN Append(stdout, expr) ELSE stdout

C25_AmbiguousNamesUnbound ==
    [][/\ (pc = "start" /\ pc' = "loop") =>
            /\ \A n \in ambiguous_requests' : ~Has(input_source', n)
            /\ \A n \in UnambiguousInputNames :
                  Has(input_source', n) /\ Get(input_source', n) = InputValue(n)
       /\ pc # "start" => (input_source' = input_source
                           /\ ambiguous_requests' = ambiguous_requests)
       /\ (TokenStep /\ args'[idx] = TokCopy /\ Occurrences(TokCopy) = 0
           /\ <<"a">> \in ambiguous_requests)
              => EvaluatedTo(<<"b">>, <<"a">>, AmbiguousOperand(<<"a">>))
       /\ (TokenStep /\ args'[idx] = TokPrefixed /\ Occurrences(TokPrefixed) = 0
           /\ <<"b">> \in ambiguous_requests)
              => EvaluatedTo(<<"A", "a">>, <<"b">>, AmbiguousOperand(<<"b">>))]_vars

\* two tables without alias both have a column a: the token b=a fails with NameError
C25_Witness ==
    /\ Len(list_of_data) = 2
    /\ \A i \in 1..2 : list_of_data[i].alias = NoAlias /\ Has(list_of_data[i].content, <<"a">>)
    /\ <<"a">> \in ambiguous_requests
    /\ args = <<TokCopy>>
    /\ pc = "raised"
    /\ exc = "NameError"
    /\ stdout = << <<"a">> >>
    /\ ~Has(input_source, <<"a">>)
    /\ output = <<>>

\* the same tables and the tokens a=ones(2), b=a: the output column a is used
C25_CreatedEarlier ==
    /\ Len(list_of_data) = 2
    /\ <<"a">> \in ambiguous_requests
    /\ args = <<TokOnes, TokCopy>>
    /\ pc = "loop"
    /\ idx = 3
    /\ Get(output, <<"b">>) = Get(output, <<"a">>)

(***************************************************************************)
(* C24: for an argument list made of gather arguments, then optionally     *)
(* `cat` and tokens, then optionally a postprocess keyword and its         *)
(* arguments, parse_args returns the gather entries (filename, alias) in   *)
(* order, the tokens after `cat` in order, and the directive of the        *)
(* keyword: (list, None), (print, arg), (output, arg), (burst, arg),       *)
(* (assert, all statements in order), or (print, ".txt") without keyword.  *)
(***************************************************************************)
Keywords == {WCat, WAssert, WOutput, WBurst, WPrint, WList, WHeaderlist} \cup HelpWords
PostKeywords == {WAssert, WOutput, WBurst, WPrint, WList, WHeaderlist}

CatAt == {i \in 1..Len(argv) : argv[i] = WCat}
PostAt == {i \in 1..Len(argv) : argv[i] \in PostKeywords}
HelpAt == {i \in 1..Len(argv) : argv[i] \in HelpWords}

Least(S) == CHOOSE i \in S : \A j \in S : i <= j

\* where the gather arguments end, the tokens end and the arguments of the keyword begin
GatherEnd == Least(CatAt \cup PostAt \cup {Len(argv) + 1}) - 1
ProcessEnd == Least(PostAt \cup {Len(argv) + 1}) - 1
ArgumentCount == Len(argv) - ProcessEnd - 1

\* a gather argument: file, "-" or "-.ext", with or without `alias=`
NamesInput(w) ==
    \/ w \in ExistingFiles \cup {<<"-">>}
    \/ (Len(w) >= 2 /\ w[1] = "-" /\ w[2] = ".")
    \/ \E i \in 1..Len(w) :
          /\ w[i] = "="
          /\ \A j \in 1..(i - 1) : w[j] # "="
          /\ SubSeq(w, i + 1, Len(w)) \in ExistingFiles \cup {<<"-">>}

GatherOf(w) ==
    IF w \in ExistingFiles \cup {<<"-">>} \/ ~HasChar(w, "=") THEN Gather(w, PyNone)
    ELSE Gather(SubSeq(w, FirstIndex(w, "=") + 1, Len(w)),
                PyStr(SubSeq(w, 1, FirstIndex(w, "=") - 1)))

\* the form of the claim, gather arguments first
InForm ==
    /\ HelpAt = {}
    /\ Cardinality(CatAt) <= 1
    /\ Cardinality(PostAt) <= 1
    /\ \A i \in CatAt, j \in PostAt : i < j
    /\ \A i \in 1..GatherEnd : NamesInput(argv[i])

\* the keyword has the arguments it takes
ArgumentsFit ==
    \A j \in PostAt :
        CASE argv[j] \in {WList, WHeaderlist} -> ArgumentCount = 0
          [] argv[j] = WAssert -> ArgumentCount >= 1
          [] OTHER -> ArgumentCount = 1

ExpectedDirective ==
    IF PostAt = {} THEN Postprocess("print", PyStr(<<".", "t", "x", "t">>))
    ELSE CASE argv[ProcessEnd + 1] \in {WList, WHeaderlist} ->
                  Postprocess(ActionOf(argv[ProcessEnd + 1]), PyNone)
           [] argv[ProcessEnd + 1] = WAssert ->
                  Postprocess("assert", PyList(SubSeq(argv, ProcessEnd + 2, Len(argv))))
           [] OTHER -> Postprocess(ActionOf(argv[ProcessEnd + 1]), PyStr(argv[Len(argv)]))

Split(directive) ==
    /\ pc = "parsed"
    /\ gather = [i \in 1..GatherEnd |-> GatherOf(argv[i])]
    /\ process = IF CatAt = {} THEN <<>> ELSE SubSeq(argv, GatherEnd + 2, ProcessEnd)
    /\ postprocess = directive

C24_ThreeParts ==
    (pc # "parse" /\ Len(argv) > 0 /\ InForm /\ ArgumentsFit) => Split(ExpectedDirective)

\* `A=- assert x x`: one gather entry with alias A, the directive (assert, [x, x])
C24_Witness ==
    /\ pc = "parsed"
    /\ argv = <<WAliasedStdin, WAssert, WOther, WOther>>
    /\ gather = <<Gather(<<"-">>, PyStr(<<"A">>))>>
    /\ postprocess = Postprocess("assert", PyList(<<WOther, WOther>>))

(***************************************************************************)
(* C30: a keyword assert, output, burst or print that ends the argument    *)
(* list leaves the directive as it is, so the list parses without error to *)
(* the default (print, ".txt"); an argument after list or headerlist, and  *)
(* a second argument after output, burst or print, make parse_args fail    *)
(* with "Unexpected extra arguments".                                      *)
(***************************************************************************)
\* the first postprocess keyword, behind well-formed gather arguments and tokens
FirstPost == Least(PostAt)
FormBefore ==
    /\ HelpAt = {}
    /\ PostAt # {}
    /\ \A i \in CatAt : i < FirstPost => \A j \in CatAt : j < FirstPost => i = j
    /\ \A i \in 1..GatherEnd : NamesInput(argv[i])

C30_KeywordWithoutArgument ==
    (pc # "parse" /\ FormBefore) =>
        /\ (InForm /\ FirstPost = Len(argv) /\ argv[FirstPost] \notin {WList, WHeaderlist})
              => Split(Postprocess("print", PyStr(<<".", "t", "x", "t">>)))
        /\ (argv[FirstPost] \in {WList, WHeaderlist} /\ FirstPost < Len(argv))
              => (pc = "raised" /\ exc = "Exception")
        /\ (/\ argv[FirstPost] \in {WOutput, WBurst, WPrint}
            /\ FirstPost + 2 <= Len(argv)
            /\ argv[FirstPost + 1] \notin Keywords)
              => (pc = "raised" /\ exc = "Exception")

\* `f cat x output`: the default directive, no error
C30_Witness ==
    /\ pc = "parsed"
    /\ argv = <<WFile, WCat, WOther, WOutput>>
    /\ process = <<WOther>>
    /\ postprocess = DefaultPostprocess

\* `burst x x` fails
C30_ExtraArgument ==
    /\ pc = "raised"
    /\ exc = "Exception"
    /\ argv = <<WBurst, WOther, WOther>>

(***************************************************************************)
(* C26: an assignment token is split on its first "=" only, so that the    *)
(* expression may contain "=" (x=a==b gives the column x); a label that is *)
(* empty after trimming fails with EmptyLabel and an expression that is    *)
(* empty after trimming with EmptyExpression, nothing being evaluated and  *)
(* the output staying as it was.                                           *)
(***************************************************************************)
EqOf(x, y) == IF IsRaise(x) THEN x ELSE IF IsRaise(y) THEN y ELSE PyEq(x, y)

\* the step failed with e before it evaluated or changed anything
FailedEarly(e) ==
    /\ exc' = e
    /\ pc' = "raised"
    /\ output' = output
    /\ stdout' = stdout
    /\ stderr' = stderr

C26_SplitOnFirstEquals ==
    [][TokenStep =>
          /\ args'[idx] = TokEq =>
                /\ EvaluatedTo(<<"x">>, <<"a", "=", "=", "b">>,
                               EqOf(Binding(<<"a">>), Binding(<<"b">>)))
                /\ exc' = "" => Keys(output') = Keys(output) \cup {<<"x">>}
          /\ args'[idx] \in {TokNoLabel, TokBare} => FailedEarly("EmptyLabel")
          /\ args'[idx] = TokNoExpr => FailedEarly("EmptyExpression")]_vars

\* the tokens A, x=a==b on table A with columns a, b: x holds the comparison
C26_Witness ==
    /\ Len(list_of_data) = 1
    /\ args = << <<"A">>, TokEq >>
    /\ pc = "loop"
    /\ idx = 3
    /\ KeyList(output) = << <<"a">>, <<"b">>, <<"x">> >>
    /\ Get(output, <<"x">>) =
           Arr([r \in 1..Rows |-> IF Get(output, <<"a">>).v[r] = Get(output, <<"b">>).v[r]
                                  THEN 1 ELSE 0])

\* after A, the token `a= ` fails with EmptyExpression and leaves a and b
C26_EmptyExpression ==
    /\ args = << <<"A">>, TokNoExpr >>
    /\ pc = "raised"
    /\ exc = "EmptyExpression"
    /\ KeyList(output) = << <<"a">>, <<"b">> >>

(***************************************************************************)
(* C27: the columns of the output are in the order in which their names    *)
(* were first inserted: a token keeps the columns that stay in their       *)
(* order and puts the names it adds behind them, so that a clobbered       *)
(* column keeps its position and a column that was deleted and is          *)
(* inserted again comes last; the table returned has that order.           *)
(***************************************************************************)
Staying == SelectSeq(KeyList(output), LAMBDA k : Has(output', k))
Arriving == SelectSeq(KeyList(output'), LAMBDA k : ~Has(output, k))

C27_InsertionOrder ==
    [][/\ TokenStep =>
            /\ KeyList(output') = Staying \o Arriving
            /\ Keys(output) \ Keys(output') # {} =>
                  (args'[idx] = TokDelete /\ Keys(output) \ Keys(output') = {<<"a">>})
       /\ ConstructorStep => (pc' = "done" => KeyList(result') = KeyList(output))]_vars

\* the tokens A, a=None, a: column a was first, is deleted, and comes back last
C27_Witness ==
    /\ args = << <<"A">>, TokDelete, <<"a">> >>
    /\ pc = "done"
    /\ KeyList(result) = << <<"b">>, <<"a">> >>
    /\ Get(result, <<"a">>) = Get(list_of_data[1].content, <<"a">>)

\* the tokens A, a=b: the clobbered column a stays first
C27_ClobberKeepsPosition ==
    /\ args = << <<"A">>, TokAB >>
    /\ pc = "done"
    /\ KeyList(result) = << <<"a">>, <<"b">> >>
    /\ Get(result, <<"a">>) = Get(result, <<"b">>)
    /\ stderr = <<clobber_warn(<<"a">>)>>

(***************************************************************************)
(* C28: after the call of cat_control the caller's token list is what it   *)
(* was if it was not empty; if it was empty it holds the column headers of *)
(* every table that is not namespace-only, one entry per column, in table  *)
(* order and then column order.                                            *)
(***************************************************************************)
\* main has called cat_control (list and headerlist return before they do)
CalledCat ==
    \/ pc \in {"loop", "done", "raised"}
    \/ (pc = "returned" /\ postprocess.action \notin {"list", "headerlist"})

C28_CallerListAfterCall ==
    CalledCat =>
        IF process # <<>> \/ exc = "DuplicateAlias" THEN args = process
        ELSE /\ Len(args) = Cardinality(TextCells)
             /\ \A c \in TextCells : args[Rank(c)] = ColumnAt(c).k

\* main called cat_control with an empty token list: the list now names a and b
C28_Witness ==
    /\ process = <<>>
    /\ Len(list_of_data) = 1
    /\ ~list_of_data[1].namespace_only
    /\ pc = "returned"
    /\ postprocess.action = "print"
    /\ args = << <<"a">>, <<"b">> >>

(***************************************************************************)
(* C29: the label of an assignment token is not checked against the        *)
(* vocabulary of the evaluator: ones=a is accepted and inserts a column    *)
(* named ones.  Once the output or the input names hold a name of the      *)
(* vocabulary, every later assignment token and every assert expression    *)
(* fails with KeyError (naming conflict), while the copy of a column by    *)
(* its name still succeeds.                                                *)
(***************************************************************************)
Conflicting(d) == Vocabulary \cap Keys(d) # {}

\* this step evaluates one assert statement
AssertStep == pc = "done" /\ postprocess' # postprocess

C29_VocabularyLabelAccepted ==
    [][/\ (TokenStep /\ args'[idx] = TokVocabulary /\ ~Conflicting(input_source)
           /\ ~Conflicting(output))
             => Assigned(<<"o", "n", "e", "s">>, Binding(<<"a">>))
       /\ (TokenStep /\ (Conflicting(input_source) \/ Conflicting(output))) =>
             /\ args'[idx] \in {TokDelete, TokOnes, TokSum, TokVocabulary}
                   => (exc' = "KeyError" /\ pc' = "raised" /\ output' = output
                       /\ stdout' = stdout)
             /\ UniqueBare(args'[idx])
                   => (exc' = "" /\ pc' = "loop" /\ Has(output', args'[idx])
                       /\ Get(output', args'[idx]) = InputValue(args'[idx]))
       /\ (AssertStep /\ Conflicting(namespace))
             => (exc' = "KeyError" /\ pc' = "raised" /\ report' = report)]_vars

\* `cat ones=a a=ones(2)`: the first token inserts ones, the second fails
C29_Witness ==
    /\ Len(list_of_data) = 1
    /\ process = <<TokVocabulary, TokOnes>>
    /\ pc = "raised"
    /\ exc = "KeyError"
    /\ KeyList(output) = << <<"o", "n", "e", "s">> >>
    /\ Get(output, <<"o", "n", "e", "s">>) = Get(list_of_data[1].content, <<"a">>)

\* `cat ones=a a assert len(a)`: the copy succeeds, the assert fails
C29_AssertFails ==
    /\ process = <<TokVocabulary, <<"a">> >>
    /\ postprocess = Postprocess("assert", PyList(<<StmtLenA>>))
    /\ pc = "raised"
    /\ exc = "KeyError"
    /\ KeyList(result) = << <<"o", "n", "e", "s">>, <<"a">> >>

\* a file with a column ones: the default copy succeeds, the assert fails
C29_InputColumn ==
    /\ process = <<>>
    /\ Has(input_source, <<"o", "n", "e", "s">>)
    /\ Has(result, <<"o", "n", "e", "s">>)
    /\ postprocess.action = "assert"
    /\ pc = "raised"
    /\ exc = "KeyError"

====
